---- MODULE Spec2Model ----
(***************************************************************************)
(* RISC-V assembler / disassembler backend (riscv-asm-analyzer).           *)
(*                                                                         *)
(* The model follows src/backend: the instruction specification table,     *)
(* register naming, the numeric utilities, the Assembler (with pseudo-     *)
(* instruction expansion) and the Disassembler (tokenizer, candidate       *)
(* selection, operand decoding), and the per-call loops of                 *)
(* assembleDetailed / disassembleDetailed.                                 *)
(*                                                                         *)
(* Representation                                                          *)
(*   - a 32-bit machine word is the set of its set bit positions           *)
(*     (a subset of 0..31); JavaScript's |, &, <<, >> on int32 become      *)
(*     union, intersection and position shifts, so no value ever leaves    *)
(*     the 32-bit range;                                                   *)
(*   - a source token is a record [t, s, v]: t = "name" is a word of       *)
(*     letters/digits (register, fence mask, garbage) with text s;         *)
(*     t = "dec" / "hex" is a numeric literal with value v; t = "mem" is   *)
(*     the text  <v>(<s>)  of a memory operand;  t = "bad" is a token no   *)
(*     literal syntax accepts;                                             *)
(*   - an absent optional field of an InstructionSpec is None.             *)
(***************************************************************************)
EXTENDS Integers, Sequences, FiniteSets, TLC

None == -1

(***************************************************************************)
(* JavaScript int32 arithmetic on bit sets                                 *)
(***************************************************************************)
Pow2(n) == 2 ^ n

MinInt32 == (0 - 2147483647) - 1
MaxInt32 == 2147483647

\* v & ((1 << n) - 1) for an integer v (two's complement), n <= 31
ToBits(v, n) == {i \in 0..(n - 1) : (v \div Pow2(i)) % 2 = 1}

\* ToInt32 of an integer already inside the signed or unsigned 32-bit range
Int32Bits(v) == ToBits(v, 31) \cup (IF v < 0 THEN {31} ELSE {})

RECURSIVE BitSum(_)
BitSum(S) == IF S = {} THEN 0
             ELSE LET i == CHOOSE j \in S : TRUE IN Pow2(i) + BitSum(S \ {i})

\* the signed value of a 32-bit pattern
ToInt32(S) == IF 31 \in S THEN (BitSum(S \ {31}) - MaxInt32) - 1 ELSE BitSum(S)

\* a << n
Shl(S, n) == {i + n : i \in S} \cap (0..31)

\* a >> n (sign-propagating)
Sar(S, n) == {i - n : i \in {j \in S : j >= n}}
             \cup (IF 31 \in S THEN (32 - n)..31 ELSE {})

\* (a >> lo) & ((1 << n) - 1) as a number
Field(S, lo, n) == BitSum({i - lo : i \in S \cap (lo..(lo + n - 1))})

\* a | b | ...
BitOr(parts) == UNION parts

\* 1 << n as JavaScript computes it (int32: 1 << 31 is negative)
Shl1(n) == ToInt32(Shl({0}, n))

(***************************************************************************)
(* errors.ts                                                               *)
(***************************************************************************)
NoLine == 0

\* new AnalyzerError(message, line): the message is prefixed 'Line N: '
\* when line is truthy
AnalyzerError(kind, line) == [cls |-> "AnalyzerError", kind |-> kind, line |-> line]

\* a plain Error thrown by registers.ts that nobody wraps
PlainError(kind) == [cls |-> "Error", kind |-> kind, line |-> NoLine]

NoError == [cls |-> "none", kind |-> "none", line |-> NoLine]

\* the value of e, computed once and handed to the rest of the computation
With(e, F(_)) == CHOOSE r \in {F(x) : x \in {e}} : TRUE

Ok(v) == [ok |-> TRUE, v |-> v, err |-> NoError]
Throw(e) == [ok |-> FALSE, v |-> 0, err |-> e]

\* the first exception among results evaluated left to right, else body
Try(rs, body) ==
  IF \E i \in DOMAIN rs : ~rs[i].ok
  THEN rs[CHOOSE i \in DOMAIN rs : ~rs[i].ok /\ \A j \in 1..(i - 1) : rs[j].ok]
  ELSE body

(***************************************************************************)
(* registers.ts                                                            *)
(***************************************************************************)
canonicalNames ==
  << "zero", "ra", "sp", "gp", "tp", "t0", "t1", "t2", "s0", "s1",
     "a0", "a1", "a2", "a3", "a4", "a5", "a6", "a7", "s2", "s3", "s4",
     "s5", "s6", "s7", "s8", "s9", "s10", "s11", "t3", "t4", "t5", "t6" >>

eCanonicalNames ==
  << "zero", "ra", "sp", "gp", "tp", "t0", "t1", "t2", "s0", "s1",
     "a0", "a1", "a2", "a3", "a4", "a5" >>

\* `x${i}`, `f${i}`, `v${i}`
xName ==
  << "x0", "x1", "x2", "x3", "x4", "x5", "x6", "x7", "x8", "x9", "x10",
     "x11", "x12", "x13", "x14", "x15", "x16", "x17", "x18", "x19", "x20",
     "x21", "x22", "x23", "x24", "x25", "x26", "x27", "x28", "x29", "x30",
     "x31" >>
fName ==
  << "f0", "f1", "f2", "f3", "f4", "f5", "f6", "f7", "f8", "f9", "f10",
     "f11", "f12", "f13", "f14", "f15", "f16", "f17", "f18", "f19", "f20",
     "f21", "f22", "f23", "f24", "f25", "f26", "f27", "f28", "f29", "f30",
     "f31" >>
vName ==
  << "v0", "v1", "v2", "v3", "v4", "v5", "v6", "v7", "v8", "v9", "v10",
     "v11", "v12", "v13", "v14", "v15", "v16", "v17", "v18", "v19", "v20",
     "v21", "v22", "v23", "v24", "v25", "v26", "v27", "v28", "v29", "v30",
     "v31" >>

\* the alias map filled by the loops of registers.ts:57-69
AliasMap(names) ==
  [s \in {names[i] : i \in 1..Len(names)} \cup {xName[i] : i \in 1..Len(names)} |->
     (CHOOSE i \in 1..Len(names) : names[i] = s \/ xName[i] = s) - 1]

aliasToNumber == AliasMap(canonicalNames)
eAliasToNumber == AliasMap(eCanonicalNames)

NameIndex(names, s) == (CHOOSE i \in 1..Len(names) : names[i] = s) - 1

parseRegister(token, isEmbedded) ==
  LET aliasMap == IF isEmbedded THEN eAliasToNumber ELSE aliasToNumber
  IN IF token.t = "name" /\ token.s \in DOMAIN aliasMap
     THEN Ok(aliasMap[token.s])
     ELSE Throw(PlainError("UnknownRegister"))

formatRegister(register) == [t |-> "name", s |-> xName[register + 1], v |-> 0]

parseFloatRegister(token) ==
  IF token.t = "name" /\ \E i \in 1..32 : fName[i] = token.s
  THEN Ok(NameIndex(fName, token.s))
  ELSE Throw(PlainError("UnknownFloatRegister"))

formatFloatRegister(register) == [t |-> "name", s |-> fName[register + 1], v |-> 0]

parseVectorRegister(token) ==
  IF token.t = "name" /\ \E i \in 1..32 : vName[i] = token.s
  THEN Ok(NameIndex(vName, token.s))
  ELSE Throw(PlainError("InvalidVectorRegister"))

formatVectorRegister(register) == [t |-> "name", s |-> vName[register + 1], v |-> 0]

(***************************************************************************)
(* utils.ts                                                                *)
(***************************************************************************)
\* a reading of the raw field without the two shifts
signExtend_Raw(S, bits) == ToInt32(S)

\* (value << shift) >> shift with shift = 32 - bits
signExtend(S, bits) == ToInt32(Sar(Shl(S, 32 - bits), 32 - bits))

\* the three literal syntaxes; every other token is rejected
parseNumericLiteral(token, line, label) ==
  IF token.t = "hex" /\ token.v >= 0 THEN Ok(token.v)
  ELSE IF token.t = "dec" THEN Ok(token.v)
  ELSE Throw(AnalyzerError("Invalid " \o label, line))

\* a range check that lets the value one above the maximum through
validateImmediateRange_Loose(value, bits, signed, line, label) ==
  LET half == Shl1(bits - 1)
      full == IF bits >= 32 THEN Shl1(bits % 32) ELSE Shl1(bits)
      aboveMax == IF signed THEN value > half ELSE value > full
      belowMin == IF signed
                  THEN (IF half = MinInt32 THEN TRUE ELSE value < 0 - half)
                  ELSE value < 0
  IN IF belowMin \/ aboveMax
     THEN Throw(AnalyzerError("Out of range " \o label, line))
     ELSE Ok(value)

\* max and min are JavaScript numbers: 1 << (bits - 1) is an int32, the
\* "- 1" and the negation are done on doubles.  value > max and value < min
\* are written so that no intermediate leaves the 32-bit range.
validateImmediateRange(value, bits, signed, line, label) ==
  LET half == Shl1(bits - 1)
      full == IF bits >= 32 THEN Shl1(bits % 32) ELSE Shl1(bits)
      aboveMax == IF signed THEN value >= half ELSE value >= full
      belowMin == IF signed
                  THEN (IF half = MinInt32 THEN TRUE ELSE value < 0 - half)
                  ELSE value < 0
  IN IF belowMin \/ aboveMax
     THEN Throw(AnalyzerError("Out of range " \o label, line))
     ELSE Ok(value)

parseImmediate(token, bits, signed, line, label) ==
  LET value == parseNumericLiteral(token, line, label)
  IN IF ~value.ok THEN value
     ELSE validateImmediateRange(value.v, bits, signed, line, label)

(***************************************************************************)
(* instruction-sets/*.ts : the per-extension tables, rows in source order  *)
(* (the vm flag of the vector rows is read by no code and is left out)     *)
(***************************************************************************)
\* rv32iInstructions (src/backend/instruction-sets/rv32i.ts), 47 rows
rv32iInstructions ==
  << [name |-> "add", format |-> "R", opcode |-> \b0110011, funct3 |-> \b000, funct7 |-> \b0000000, operandPattern |-> "rd_rs1_rs2"],
     [name |-> "sub", format |-> "R", opcode |-> \b0110011, funct3 |-> \b000, funct7 |-> \b0100000, operandPattern |-> "rd_rs1_rs2"],
     [name |-> "sll", format |-> "R", opcode |-> \b0110011, funct3 |-> \b001, funct7 |-> \b0000000, operandPattern |-> "rd_rs1_rs2"],
     [name |-> "slt", format |-> "R", opcode |-> \b0110011, funct3 |-> \b010, funct7 |-> \b0000000, operandPattern |-> "rd_rs1_rs2"],
     [name |-> "sltu", format |-> "R", opcode |-> \b0110011, funct3 |-> \b011, funct7 |-> \b0000000, operandPattern |-> "rd_rs1_rs2"],
     [name |-> "xor", format |-> "R", opcode |-> \b0110011, funct3 |-> \b100, funct7 |-> \b0000000, operandPattern |-> "rd_rs1_rs2"],
     [name |-> "srl", format |-> "R", opcode |-> \b0110011, funct3 |-> \b101, funct7 |-> \b0000000, operandPattern |-> "rd_rs1_rs2"],
     [name |-> "sra", format |-> "R", opcode |-> \b0110011, funct3 |-> \b101, funct7 |-> \b0100000, operandPattern |-> "rd_rs1_rs2"],
     [name |-> "or", format |-> "R", opcode |-> \b0110011, funct3 |-> \b110, funct7 |-> \b0000000, operandPattern |-> "rd_rs1_rs2"],
     [name |-> "and", format |-> "R", opcode |-> \b0110011, funct3 |-> \b111, funct7 |-> \b0000000, operandPattern |-> "rd_rs1_rs2"],
     [name |-> "addi", format |-> "I", opcode |-> \b0010011, funct3 |-> \b000, operandPattern |-> "rd_rs1_imm12"],
     [name |-> "slti", format |-> "I", opcode |-> \b0010011, funct3 |-> \b010, operandPattern |-> "rd_rs1_imm12"],
     [name |-> "sltiu", format |-> "I", opcode |-> \b0010011, funct3 |-> \b011, operandPattern |-> "rd_rs1_imm12"],
     [name |-> "xori", format |-> "I", opcode |-> \b0010011, funct3 |-> \b100, operandPattern |-> "rd_rs1_imm12"],
     [name |-> "ori", format |-> "I", opcode |-> \b0010011, funct3 |-> \b110, operandPattern |-> "rd_rs1_imm12"],
     [name |-> "andi", format |-> "I", opcode |-> \b0010011, funct3 |-> \b111, operandPattern |-> "rd_rs1_imm12"],
     [name |-> "slli", format |-> "I", opcode |-> \b0010011, funct3 |-> \b001, funct7 |-> \b0000000, operandPattern |-> "rd_rs1_imm12", immBits |-> 5, unsignedImmediate |-> TRUE],
     [name |-> "srli", format |-> "I", opcode |-> \b0010011, funct3 |-> \b101, funct7 |-> \b0000000, operandPattern |-> "rd_rs1_imm12", immBits |-> 5, unsignedImmediate |-> TRUE],
     [name |-> "srai", format |-> "I", opcode |-> \b0010011, funct3 |-> \b101, funct7 |-> \b0100000, operandPattern |-> "rd_rs1_imm12", immBits |-> 5, unsignedImmediate |-> TRUE],
     [name |-> "jalr", format |-> "I", opcode |-> \b1100111, funct3 |-> \b000, operandPattern |-> "rd_rs1_imm12"],
     [name |-> "lb", format |-> "I", opcode |-> \b0000011, funct3 |-> \b000, operandPattern |-> "rd_mem"],
     [name |-> "lh", format |-> "I", opcode |-> \b0000011, funct3 |-> \b001, operandPattern |-> "rd_mem"],
     [name |-> "lw", format |-> "I", opcode |-> \b0000011, funct3 |-> \b010, operandPattern |-> "rd_mem"],
     [name |-> "lbu", format |-> "I", opcode |-> \b0000011, funct3 |-> \b100, operandPattern |-> "rd_mem"],
     [name |-> "lhu", format |-> "I", opcode |-> \b0000011, funct3 |-> \b101, operandPattern |-> "rd_mem"],
     [name |-> "sb", format |-> "S", opcode |-> \b0100011, funct3 |-> \b000, operandPattern |-> "rs2_mem"],
     [name |-> "sh", format |-> "S", opcode |-> \b0100011, funct3 |-> \b001, operandPattern |-> "rs2_mem"],
     [name |-> "sw", format |-> "S", opcode |-> \b0100011, funct3 |-> \b010, operandPattern |-> "rs2_mem"],
     [name |-> "beq", format |-> "B", opcode |-> \b1100011, funct3 |-> \b000, operandPattern |-> "rs1_rs2_branch", immBits |-> 13],
     [name |-> "bne", format |-> "B", opcode |-> \b1100011, funct3 |-> \b001, operandPattern |-> "rs1_rs2_branch", immBits |-> 13],
     [name |-> "blt", format |-> "B", opcode |-> \b1100011, funct3 |-> \b100, operandPattern |-> "rs1_rs2_branch", immBits |-> 13],
     [name |-> "bge", format |-> "B", opcode |-> \b1100011, funct3 |-> \b101, operandPattern |-> "rs1_rs2_branch", immBits |-> 13],
     [name |-> "bltu", format |-> "B", opcode |-> \b1100011, funct3 |-> \b110, operandPattern |-> "rs1_rs2_branch", immBits |-> 13],
     [name |-> "bgeu", format |-> "B", opcode |-> \b1100011, funct3 |-> \b111, operandPattern |-> "rs1_rs2_branch", immBits |-> 13],
     [name |-> "fence", format |-> "I", opcode |-> \b0001111, funct3 |-> \b000, operandPattern |-> "fence", immBits |-> 12, unsignedImmediate |-> TRUE],
     [name |-> "fence.i", format |-> "I", opcode |-> \b0001111, funct3 |-> \b001, operandPattern |-> "none", immBits |-> 12, unsignedImmediate |-> TRUE, fixedImmediate |-> \b000100000000],
     [name |-> "ecall", format |-> "I", opcode |-> \b1110011, funct3 |-> \b000, operandPattern |-> "none", immBits |-> 12, fixedImmediate |-> \b000000000000],
     [name |-> "ebreak", format |-> "I", opcode |-> \b1110011, funct3 |-> \b000, operandPattern |-> "none", immBits |-> 12, fixedImmediate |-> \b000000000001],
     [name |-> "csrrw", format |-> "I", opcode |-> \b1110011, funct3 |-> \b001, operandPattern |-> "rd_csr_rs1"],
     [name |-> "csrrs", format |-> "I", opcode |-> \b1110011, funct3 |-> \b010, operandPattern |-> "rd_csr_rs1"],
     [name |-> "csrrc", format |-> "I", opcode |-> \b1110011, funct3 |-> \b011, operandPattern |-> "rd_csr_rs1"],
     [name |-> "csrrwi", format |-> "I", opcode |-> \b1110011, funct3 |-> \b101, operandPattern |-> "rd_csr_imm5", immBits |-> 12, unsignedImmediate |-> TRUE],
     [name |-> "csrrsi", format |-> "I", opcode |-> \b1110011, funct3 |-> \b110, operandPattern |-> "rd_csr_imm5", immBits |-> 12, unsignedImmediate |-> TRUE],
     [name |-> "csrrci", format |-> "I", opcode |-> \b1110011, funct3 |-> \b111, operandPattern |-> "rd_csr_imm5", immBits |-> 12, unsignedImmediate |-> TRUE],
     [name |-> "lui", format |-> "U", opcode |-> \b0110111, operandPattern |-> "rd_imm20", immBits |-> 20],
     [name |-> "auipc", format |-> "U", opcode |-> \b0010111, operandPattern |-> "rd_imm20", immBits |-> 20],
     [name |-> "jal", format |-> "J", opcode |-> \b1101111, operandPattern |-> "rd_jump", immBits |-> 21] >>

\* rv32mInstructions (unnamed/part_004), 8 rows
rv32mInstructions ==
  << [name |-> "mul", format |-> "R", opcode |-> \b0110011, funct3 |-> \b000, funct7 |-> \b0000001, operandPattern |-> "rd_rs1_rs2"],
     [name |-> "mulh", format |-> "R", opcode |-> \b0110011, funct3 |-> \b001, funct7 |-> \b0000001, operandPattern |-> "rd_rs1_rs2"],
     [name |-> "mulhsu", format |-> "R", opcode |-> \b0110011, funct3 |-> \b010, funct7 |-> \b0000001, operandPattern |-> "rd_rs1_rs2"],
     [name |-> "mulhu", format |-> "R", opcode |-> \b0110011, funct3 |-> \b011, funct7 |-> \b0000001, operandPattern |-> "rd_rs1_rs2"],
     [name |-> "div", format |-> "R", opcode |-> \b0110011, funct3 |-> \b100, funct7 |-> \b0000001, operandPattern |-> "rd_rs1_rs2"],
     [name |-> "divu", format |-> "R", opcode |-> \b0110011, funct3 |-> \b101, funct7 |-> \b0000001, operandPattern |-> "rd_rs1_rs2"],
     [name |-> "rem", format |-> "R", opcode |-> \b0110011, funct3 |-> \b110, funct7 |-> \b0000001, operandPattern |-> "rd_rs1_rs2"],
     [name |-> "remu", format |-> "R", opcode |-> \b0110011, funct3 |-> \b111, funct7 |-> \b0000001, operandPattern |-> "rd_rs1_rs2"] >>

\* rv64iInstructions (src/backend/instruction-sets/rv64i.ts), 12 rows
rv64iInstructions ==
  << [name |-> "addiw", format |-> "I", opcode |-> \b0011011, funct3 |-> \b000, operandPattern |-> "rd_rs1_imm12", minXlen |-> 64],
     [name |-> "slliw", format |-> "I", opcode |-> \b0011011, funct3 |-> \b001, funct7 |-> \b0000000, operandPattern |-> "rd_rs1_imm12", immBits |-> 5, unsignedImmediate |-> TRUE, minXlen |-> 64],
     [name |-> "srliw", format |-> "I", opcode |-> \b0011011, funct3 |-> \b101, funct7 |-> \b0000000, operandPattern |-> "rd_rs1_imm12", immBits |-> 5, unsignedImmediate |-> TRUE, minXlen |-> 64],
     [name |-> "sraiw", format |-> "I", opcode |-> \b0011011, funct3 |-> \b101, funct7 |-> \b0100000, operandPattern |-> "rd_rs1_imm12", immBits |-> 5, unsignedImmediate |-> TRUE, minXlen |-> 64],
     [name |-> "addw", format |-> "R", opcode |-> \b0111011, funct3 |-> \b000, funct7 |-> \b0000000, operandPattern |-> "rd_rs1_rs2", minXlen |-> 64],
     [name |-> "subw", format |-> "R", opcode |-> \b0111011, funct3 |-> \b000, funct7 |-> \b0100000, operandPattern |-> "rd_rs1_rs2", minXlen |-> 64],
     [name |-> "sllw", format |-> "R", opcode |-> \b0111011, funct3 |-> \b001, funct7 |-> \b0000000, operandPattern |-> "rd_rs1_rs2", minXlen |-> 64],
     [name |-> "srlw", format |-> "R", opcode |-> \b0111011, funct3 |-> \b101, funct7 |-> \b0000000, operandPattern |-> "rd_rs1_rs2", minXlen |-> 64],
     [name |-> "sraw", format |-> "R", opcode |-> \b0111011, funct3 |-> \b101, funct7 |-> \b0100000, operandPattern |-> "rd_rs1_rs2", minXlen |-> 64],
     [name |-> "lwu", format |-> "I", opcode |-> \b0000011, funct3 |-> \b110, operandPattern |-> "rd_mem", minXlen |-> 64],
     [name |-> "ld", format |-> "I", opcode |-> \b0000011, funct3 |-> \b011, operandPattern |-> "rd_mem", minXlen |-> 64],
     [name |-> "sd", format |-> "S", opcode |-> \b0100011, funct3 |-> \b011, operandPattern |-> "rs2_mem", minXlen |-> 64] >>

\* rv64mInstructions (unnamed/part_004), 5 rows
rv64mInstructions ==
  << [name |-> "mulw", format |-> "R", opcode |-> \b0111011, funct3 |-> \b000, funct7 |-> \b0000001, operandPattern |-> "rd_rs1_rs2", minXlen |-> 64],
     [name |-> "divw", format |-> "R", opcode |-> \b0111011, funct3 |-> \b100, funct7 |-> \b0000001, operandPattern |-> "rd_rs1_rs2", minXlen |-> 64],
     [name |-> "divuw", format |-> "R", opcode |-> \b0111011, funct3 |-> \b101, funct7 |-> \b0000001, operandPattern |-> "rd_rs1_rs2", minXlen |-> 64],
     [name |-> "remw", format |-> "R", opcode |-> \b0111011, funct3 |-> \b110, funct7 |-> \b0000001, operandPattern |-> "rd_rs1_rs2", minXlen |-> 64],
     [name |-> "remuw", format |-> "R", opcode |-> \b0111011, funct3 |-> \b111, funct7 |-> \b0000001, operandPattern |-> "rd_rs1_rs2", minXlen |-> 64] >>

\* rvbInstructions (unnamed/part_003), 25 rows
rvbInstructions ==
  << [name |-> "clz", format |-> "I", opcode |-> \b0010011, funct3 |-> \b001, operandPattern |-> "rd_rs1", fixedImmediate |-> \b011000000000],
     [name |-> "ctz", format |-> "I", opcode |-> \b0010011, funct3 |-> \b001, operandPattern |-> "rd_rs1_imm12", fixedImmediate |-> \b011000000001],
     [name |-> "cpop", format |-> "I", opcode |-> \b0010011, funct3 |-> \b001, operandPattern |-> "rd_rs1_imm12", fixedImmediate |-> \b011000000010],
     [name |-> "sext.b", format |-> "I", opcode |-> \b0010011, funct3 |-> \b001, operandPattern |-> "rd_rs1_imm12", fixedImmediate |-> \b011000000100],
     [name |-> "sext.h", format |-> "I", opcode |-> \b0010011, funct3 |-> \b001, operandPattern |-> "rd_rs1_imm12", fixedImmediate |-> \b011000000101],
     [name |-> "clzw", format |-> "I", opcode |-> \b0011011, funct3 |-> \b001, operandPattern |-> "rd_rs1_imm12", fixedImmediate |-> \b011000000000, minXlen |-> 64],
     [name |-> "ctzw", format |-> "I", opcode |-> \b0011011, funct3 |-> \b001, operandPattern |-> "rd_rs1_imm12", fixedImmediate |-> \b011000000001, minXlen |-> 64],
     [name |-> "cpopw", format |-> "I", opcode |-> \b0011011, funct3 |-> \b001, operandPattern |-> "rd_rs1_imm12", fixedImmediate |-> \b011000000010, minXlen |-> 64],
     [name |-> "andn", format |-> "R", opcode |-> \b0110011, funct3 |-> \b111, funct7 |-> \b0100000, operandPattern |-> "rd_rs1_rs2"],
     [name |-> "orn", format |-> "R", opcode |-> \b0110011, funct3 |-> \b110, funct7 |-> \b0100000, operandPattern |-> "rd_rs1_rs2"],
     [name |-> "xnor", format |-> "R", opcode |-> \b0110011, funct3 |-> \b100, funct7 |-> \b0100000, operandPattern |-> "rd_rs1_rs2"],
     [name |-> "rol", format |-> "R", opcode |-> \b0110011, funct3 |-> \b001, funct7 |-> \b0110000, operandPattern |-> "rd_rs1_rs2"],
     [name |-> "ror", format |-> "R", opcode |-> \b0110011, funct3 |-> \b101, funct7 |-> \b0110000, operandPattern |-> "rd_rs1_rs2"],
     [name |-> "rolw", format |-> "R", opcode |-> \b0111011, funct3 |-> \b001, funct7 |-> \b0110000, operandPattern |-> "rd_rs1_rs2", minXlen |-> 64],
     [name |-> "rorw", format |-> "R", opcode |-> \b0111011, funct3 |-> \b101, funct7 |-> \b0110000, operandPattern |-> "rd_rs1_rs2", minXlen |-> 64],
     [name |-> "rori", format |-> "I", opcode |-> \b0010011, funct3 |-> \b101, funct7 |-> \b0110000, operandPattern |-> "rd_rs1_imm6", immBits |-> 6],
     [name |-> "roriw", format |-> "I", opcode |-> \b0011011, funct3 |-> \b101, funct7 |-> \b0110000, operandPattern |-> "rd_rs1_imm6", immBits |-> 5, minXlen |-> 64],
     [name |-> "bset", format |-> "R", opcode |-> \b0110011, funct3 |-> \b001, funct7 |-> \b0010000, operandPattern |-> "rd_rs1_rs2"],
     [name |-> "bclr", format |-> "R", opcode |-> \b0110011, funct3 |-> \b001, funct7 |-> \b0100000, operandPattern |-> "rd_rs1_rs2"],
     [name |-> "binv", format |-> "R", opcode |-> \b0110011, funct3 |-> \b001, funct7 |-> \b0110000, operandPattern |-> "rd_rs1_rs2"],
     [name |-> "bext", format |-> "R", opcode |-> \b0110011, funct3 |-> \b101, funct7 |-> \b0100000, operandPattern |-> "rd_rs1_rs2"],
     [name |-> "bseti", format |-> "I", opcode |-> \b0010011, funct3 |-> \b001, funct7 |-> \b0010000, operandPattern |-> "rd_rs1_imm6", immBits |-> 6],
     [name |-> "bclri", format |-> "I", opcode |-> \b0010011, funct3 |-> \b101, funct7 |-> \b0010000, operandPattern |-> "rd_rs1_imm6", immBits |-> 6],
     [name |-> "binvi", format |-> "I", opcode |-> \b0010011, funct3 |-> \b101, funct7 |-> \b0110000, operandPattern |-> "rd_rs1_imm6", immBits |-> 6],
     [name |-> "bexti", format |-> "I", opcode |-> \b0010011, funct3 |-> \b101, funct7 |-> \b0100000, operandPattern |-> "rd_rs1_imm6", immBits |-> 6] >>

\* rvfInstructions (unnamed/part_004), 19 rows
rvfInstructions ==
  << [name |-> "flw", format |-> "FI", opcode |-> \b0000111, funct3 |-> \b010, operandPattern |-> "fd_rs1", minXlen |-> 32],
     [name |-> "fsw", format |-> "FS", opcode |-> \b0100111, funct3 |-> \b010, operandPattern |-> "fs2_fs1_rs1", minXlen |-> 32],
     [name |-> "fadd.s", format |-> "FR", opcode |-> \b1010011, funct3 |-> \b000, funct7 |-> \b0000000, operandPattern |-> "fd_fs1_fs2", minXlen |-> 32],
     [name |-> "fsub.s", format |-> "FR", opcode |-> \b1010011, funct3 |-> \b000, funct7 |-> \b0000100, operandPattern |-> "fd_fs1_fs2", minXlen |-> 32],
     [name |-> "fmul.s", format |-> "FR", opcode |-> \b1010011, funct3 |-> \b000, funct7 |-> \b0001000, operandPattern |-> "fd_fs1_fs2", minXlen |-> 32],
     [name |-> "fdiv.s", format |-> "FR", opcode |-> \b1010011, funct3 |-> \b000, funct7 |-> \b0001100, operandPattern |-> "fd_fs1_fs2", minXlen |-> 32],
     [name |-> "fsqrt.s", format |-> "FR", opcode |-> \b1010011, funct3 |-> \b000, funct7 |-> \b0101100, operandPattern |-> "fd_fs1", minXlen |-> 32],
     [name |-> "fmin.s", format |-> "FR", opcode |-> \b1010011, funct3 |-> \b000, funct7 |-> \b0010100, operandPattern |-> "fd_fs1_fs2", minXlen |-> 32],
     [name |-> "fmax.s", format |-> "FR", opcode |-> \b1010011, funct3 |-> \b001, funct7 |-> \b0010100, operandPattern |-> "fd_fs1_fs2", minXlen |-> 32],
     [name |-> "feq.s", format |-> "FR", opcode |-> \b1010011, funct3 |-> \b010, funct7 |-> \b1010000, operandPattern |-> "rd_fs1_fs2", minXlen |-> 32],
     [name |-> "flt.s", format |-> "FR", opcode |-> \b1010011, funct3 |-> \b001, funct7 |-> \b1010000, operandPattern |-> "rd_fs1_fs2", minXlen |-> 32],
     [name |-> "fle.s", format |-> "FR", opcode |-> \b1010011, funct3 |-> \b000, funct7 |-> \b1010000, operandPattern |-> "rd_fs1_fs2", minXlen |-> 32],
     [name |-> "fcvt.w.s", format |-> "FR", opcode |-> \b1010011, funct3 |-> \b000, funct7 |-> \b1100000, operandPattern |-> "rd_fs1", minXlen |-> 32],
     [name |-> "fcvt.wu.s", format |-> "FR", opcode |-> \b1010011, funct3 |-> \b001, funct7 |-> \b1100000, operandPattern |-> "rd_fs1", minXlen |-> 32],
     [name |-> "fcvt.s.w", format |-> "FR", opcode |-> \b1010011, funct3 |-> \b000, funct7 |-> \b1101000, operandPattern |-> "fd_rs1", minXlen |-> 32],
     [name |-> "fcvt.s.wu", format |-> "FR", opcode |-> \b1010011, funct3 |-> \b001, funct7 |-> \b1101000, operandPattern |-> "fd_rs1", minXlen |-> 32],
     [name |-> "fmv.x.w", format |-> "FR", opcode |-> \b1010011, funct3 |-> \b000, funct7 |-> \b1110000, operandPattern |-> "rd_fs1", minXlen |-> 32],
     [name |-> "fmv.w.x", format |-> "FR", opcode |-> \b1010011, funct3 |-> \b000, funct7 |-> \b1111000, operandPattern |-> "fd_rs1", minXlen |-> 32],
     [name |-> "fclass.s", format |-> "FR", opcode |-> \b1010011, funct3 |-> \b001, funct7 |-> \b1110000, operandPattern |-> "rd_fs1", minXlen |-> 32] >>

\* rvdInstructions (src/backend/instruction-sets/rvd.ts), 28 rows
rvdInstructions ==
  << [name |-> "fld", format |-> "FI", opcode |-> \b0000111, funct3 |-> \b011, operandPattern |-> "rd_mem", minXlen |-> 32],
     [name |-> "fsd", format |-> "FS", opcode |-> \b0100111, funct3 |-> \b011, operandPattern |-> "rs2_mem", minXlen |-> 32],
     [name |-> "fadd.d", format |-> "FR", opcode |-> \b1010011, funct3 |-> \b000, funct7 |-> \b0000001, operandPattern |-> "fd_fs1_fs2", minXlen |-> 32],
     [name |-> "fsub.d", format |-> "FR", opcode |-> \b1010011, funct3 |-> \b000, funct7 |-> \b0000101, operandPattern |-> "fd_fs1_fs2", minXlen |-> 32],
     [name |-> "fmul.d", format |-> "FR", opcode |-> \b1010011, funct3 |-> \b000, funct7 |-> \b0001001, operandPattern |-> "fd_fs1_fs2", minXlen |-> 32],
     [name |-> "fdiv.d", format |-> "FR", opcode |-> \b1010011, funct3 |-> \b000, funct7 |-> \b0001101, operandPattern |-> "fd_fs1_fs2", minXlen |-> 32],
     [name |-> "fsqrt.d", format |-> "FR", opcode |-> \b1010011, funct3 |-> \b000, funct7 |-> \b0101101, operandPattern |-> "fd_fs1", minXlen |-> 32],
     [name |-> "fsgnj.d", format |-> "FR", opcode |-> \b1010011, funct3 |-> \b000, funct7 |-> \b0010001, operandPattern |-> "fd_fs1_fs2", minXlen |-> 32],
     [name |-> "fsgnjn.d", format |-> "FR", opcode |-> \b1010011, funct3 |-> \b001, funct7 |-> \b0010001, operandPattern |-> "fd_fs1_fs2", minXlen |-> 32],
     [name |-> "fsgnjx.d", format |-> "FR", opcode |-> \b1010011, funct3 |-> \b010, funct7 |-> \b0010001, operandPattern |-> "fd_fs1_fs2", minXlen |-> 32],
     [name |-> "fmin.d", format |-> "FR", opcode |-> \b1010011, funct3 |-> \b000, funct7 |-> \b0010101, operandPattern |-> "fd_fs1_fs2", minXlen |-> 32],
     [name |-> "fmax.d", format |-> "FR", opcode |-> \b1010011, funct3 |-> \b001, funct7 |-> \b0010101, operandPattern |-> "fd_fs1_fs2", minXlen |-> 32],
     [name |-> "feq.d", format |-> "FR", opcode |-> \b1010011, funct3 |-> \b010, funct7 |-> \b1010001, operandPattern |-> "rd_fs1_fs2", minXlen |-> 32],
     [name |-> "flt.d", format |-> "FR", opcode |-> \b1010011, funct3 |-> \b001, funct7 |-> \b1010001, operandPattern |-> "rd_fs1_fs2", minXlen |-> 32],
     [name |-> "fle.d", format |-> "FR", opcode |-> \b1010011, funct3 |-> \b000, funct7 |-> \b1010001, operandPattern |-> "rd_fs1_fs2", minXlen |-> 32],
     [name |-> "fcvt.w.d", format |-> "FR", opcode |-> \b1010011, funct3 |-> \b000, funct7 |-> \b1100001, operandPattern |-> "rd_fs1", minXlen |-> 32],
     [name |-> "fcvt.wu.d", format |-> "FR", opcode |-> \b1010011, funct3 |-> \b001, funct7 |-> \b1100001, operandPattern |-> "rd_fs1", minXlen |-> 32],
     [name |-> "fcvt.d.w", format |-> "FR", opcode |-> \b1010011, funct3 |-> \b000, funct7 |-> \b1101001, operandPattern |-> "fd_rs1", minXlen |-> 32],
     [name |-> "fcvt.d.wu", format |-> "FR", opcode |-> \b1010011, funct3 |-> \b001, funct7 |-> \b1101001, operandPattern |-> "fd_rs1", minXlen |-> 32],
     [name |-> "fcvt.l.d", format |-> "FR", opcode |-> \b1010011, funct3 |-> \b010, funct7 |-> \b1100001, operandPattern |-> "rd_fs1", minXlen |-> 64],
     [name |-> "fcvt.lu.d", format |-> "FR", opcode |-> \b1010011, funct3 |-> \b011, funct7 |-> \b1100001, operandPattern |-> "rd_fs1", minXlen |-> 64],
     [name |-> "fcvt.d.l", format |-> "FR", opcode |-> \b1010011, funct3 |-> \b010, funct7 |-> \b1101001, operandPattern |-> "fd_rs1", minXlen |-> 64],
     [name |-> "fcvt.d.lu", format |-> "FR", opcode |-> \b1010011, funct3 |-> \b011, funct7 |-> \b1101001, operandPattern |-> "fd_rs1", minXlen |-> 64],
     [name |-> "fcvt.s.d", format |-> "FR", opcode |-> \b1010011, funct3 |-> \b001, funct7 |-> \b0100000, operandPattern |-> "fd_fs1", minXlen |-> 32],
     [name |-> "fcvt.d.s", format |-> "FR", opcode |-> \b1010011, funct3 |-> \b000, funct7 |-> \b0100001, operandPattern |-> "fd_fs1", minXlen |-> 32],
     [name |-> "fmv.x.d", format |-> "FR", opcode |-> \b1010011, funct3 |-> \b000, funct7 |-> \b1110001, operandPattern |-> "rd_fs1", minXlen |-> 64],
     [name |-> "fmv.d.x", format |-> "FR", opcode |-> \b1010011, funct3 |-> \b000, funct7 |-> \b1111001, operandPattern |-> "fd_rs1", minXlen |-> 64],
     [name |-> "fclass.d", format |-> "FR", opcode |-> \b1010011, funct3 |-> \b001, funct7 |-> \b1110001, operandPattern |-> "rd_fs1", minXlen |-> 32] >>

\* rvqInstructions (src/backend/instruction-sets/rvd.ts), 34 rows
rvqInstructions ==
  << [name |-> "flq", format |-> "FI", opcode |-> \b0000111, funct3 |-> \b100, operandPattern |-> "rd_mem", minXlen |-> 32],
     [name |-> "fsq", format |-> "FS", opcode |-> \b0100111, funct3 |-> \b100, operandPattern |-> "rs2_mem", minXlen |-> 32],
     [name |-> "fadd.q", format |-> "FR", opcode |-> \b1010011, funct3 |-> \b000, funct7 |-> \b0000011, operandPattern |-> "fd_fs1_fs2", minXlen |-> 32],
     [name |-> "fsub.q", format |-> "FR", opcode |-> \b1010011, funct3 |-> \b000, funct7 |-> \b0000111, operandPattern |-> "fd_fs1_fs2", minXlen |-> 32],
     [name |-> "fmul.q", format |-> "FR", opcode |-> \b1010011, funct3 |-> \b000, funct7 |-> \b0001011, operandPattern |-> "fd_fs1_fs2", minXlen |-> 32],
     [name |-> "fdiv.q", format |-> "FR", opcode |-> \b1010011, funct3 |-> \b000, funct7 |-> \b0001111, operandPattern |-> "fd_fs1_fs2", minXlen |-> 32],
     [name |-> "fsqrt.q", format |-> "FR", opcode |-> \b1010011, funct3 |-> \b000, funct7 |-> \b0101111, operandPattern |-> "fd_fs1", minXlen |-> 32],
     [name |-> "fsgnj.q", format |-> "FR", opcode |-> \b1010011, funct3 |-> \b000, funct7 |-> \b0010011, operandPattern |-> "fd_fs1_fs2", minXlen |-> 32],
     [name |-> "fsgnjn.q", format |-> "FR", opcode |-> \b1010011, funct3 |-> \b001, funct7 |-> \b0010011, operandPattern |-> "fd_fs1_fs2", minXlen |-> 32],
     [name |-> "fsgnjx.q", format |-> "FR", opcode |-> \b1010011, funct3 |-> \b010, funct7 |-> \b0010011, operandPattern |-> "fd_fs1_fs2", minXlen |-> 32],
     [name |-> "fmin.q", format |-> "FR", opcode |-> \b1010011, funct3 |-> \b000, funct7 |-> \b0010111, operandPattern |-> "fd_fs1_fs2", minXlen |-> 32],
     [name |-> "fmax.q", format |-> "FR", opcode |-> \b1010011, funct3 |-> \b001, funct7 |-> \b0010111, operandPattern |-> "fd_fs1_fs2", minXlen |-> 32],
     [name |-> "fmadd.q", format |-> "FR4", opcode |-> \b1000011, funct2 |-> \b11, operandPattern |-> "fd_fs1_fs2_fs3", minXlen |-> 32],
     [name |-> "fmsub.q", format |-> "FR4", opcode |-> \b1000111, funct2 |-> \b11, operandPattern |-> "fd_fs1_fs2_fs3", minXlen |-> 32],
     [name |-> "fnmsub.q", format |-> "FR4", opcode |-> \b1001011, funct2 |-> \b11, operandPattern |-> "fd_fs1_fs2_fs3", minXlen |-> 32],
     [name |-> "fnmadd.q", format |-> "FR4", opcode |-> \b1001111, funct2 |-> \b11, operandPattern |-> "fd_fs1_fs2_fs3", minXlen |-> 32],
     [name |-> "feq.q", format |-> "FR", opcode |-> \b1010011, funct3 |-> \b010, funct7 |-> \b1010011, operandPattern |-> "rd_fs1_fs2", minXlen |-> 32],
     [name |-> "flt.q", format |-> "FR", opcode |-> \b1010011, funct3 |-> \b001, funct7 |-> \b1010011, operandPattern |-> "rd_fs1_fs2", minXlen |-> 32],
     [name |-> "fle.q", format |-> "FR", opcode |-> \b1010011, funct3 |-> \b000, funct7 |-> \b1010011, operandPattern |-> "rd_fs1_fs2", minXlen |-> 32],
     [name |-> "fcvt.w.q", format |-> "FR", opcode |-> \b1010011, funct3 |-> \b000, funct7 |-> \b1100011, operandPattern |-> "rd_fs1", minXlen |-> 32],
     [name |-> "fcvt.wu.q", format |-> "FR", opcode |-> \b1010011, funct3 |-> \b001, funct7 |-> \b1100011, operandPattern |-> "rd_fs1", minXlen |-> 32],
     [name |-> "fcvt.q.w", format |-> "FR", opcode |-> \b1010011, funct3 |-> \b000, funct7 |-> \b1101011, operandPattern |-> "fd_rs1", minXlen |-> 32],
     [name |-> "fcvt.q.wu", format |-> "FR", opcode |-> \b1010011, funct3 |-> \b001, funct7 |-> \b1101011, operandPattern |-> "fd_rs1", minXlen |-> 32],
     [name |-> "fcvt.l.q", format |-> "FR", opcode |-> \b1010011, funct3 |-> \b010, funct7 |-> \b1100011, operandPattern |-> "rd_fs1", minXlen |-> 64],
     [name |-> "fcvt.lu.q", format |-> "FR", opcode |-> \b1010011, funct3 |-> \b011, funct7 |-> \b1100011, operandPattern |-> "rd_fs1", minXlen |-> 64],
     [name |-> "fcvt.q.l", format |-> "FR", opcode |-> \b1010011, funct3 |-> \b010, funct7 |-> \b1101011, operandPattern |-> "fd_rs1", minXlen |-> 64],
     [name |-> "fcvt.q.lu", format |-> "FR", opcode |-> \b1010011, funct3 |-> \b011, funct7 |-> \b1101011, operandPattern |-> "fd_rs1", minXlen |-> 64],
     [name |-> "fcvt.s.q", format |-> "FR", opcode |-> \b1010011, funct3 |-> \b011, funct7 |-> \b0100000, operandPattern |-> "fd_fs1", minXlen |-> 32],
     [name |-> "fcvt.q.s", format |-> "FR", opcode |-> \b1010011, funct3 |-> \b000, funct7 |-> \b0100011, operandPattern |-> "fd_fs1", minXlen |-> 32],
     [name |-> "fcvt.d.q", format |-> "FR", opcode |-> \b1010011, funct3 |-> \b011, funct7 |-> \b0100001, operandPattern |-> "fd_fs1", minXlen |-> 32],
     [name |-> "fcvt.q.d", format |-> "FR", opcode |-> \b1010011, funct3 |-> \b001, funct7 |-> \b0100011, operandPattern |-> "fd_fs1", minXlen |-> 32],
     [name |-> "fmv.x.q", format |-> "FR", opcode |-> \b1010011, funct3 |-> \b000, funct7 |-> \b1110011, operandPattern |-> "rd_fs1", minXlen |-> 64],
     [name |-> "fmv.q.x", format |-> "FR", opcode |-> \b1010011, funct3 |-> \b000, funct7 |-> \b1111011, operandPattern |-> "fd_rs1", minXlen |-> 64],
     [name |-> "fclass.q", format |-> "FR", opcode |-> \b1010011, funct3 |-> \b001, funct7 |-> \b1110011, operandPattern |-> "rd_fs1", minXlen |-> 32] >>

\* rv128iInstructions (unnamed/part_001), 2 rows
rv128iInstructions ==
  << [name |-> "lq", format |-> "I", opcode |-> \b0000011, funct3 |-> \b010, operandPattern |-> "rd_mem", minXlen |-> 128],
     [name |-> "sq", format |-> "S", opcode |-> \b0100011, funct3 |-> \b010, operandPattern |-> "rs2_mem", minXlen |-> 128] >>

\* rvaInstructions (unnamed/part_004), 22 rows
rvaInstructions ==
  << [name |-> "lr.w", format |-> "R", opcode |-> \b0101111, funct3 |-> \b010, funct7 |-> \b0000010, operandPattern |-> "rd_rs1", minXlen |-> 32],
     [name |-> "lr.d", format |-> "R", opcode |-> \b0101111, funct3 |-> \b011, funct7 |-> \b0000010, operandPattern |-> "rd_rs1", minXlen |-> 64],
     [name |-> "sc.w", format |-> "R", opcode |-> \b0101111, funct3 |-> \b010, funct7 |-> \b0000011, operandPattern |-> "rd_rs1_rs2", minXlen |-> 32],
     [name |-> "sc.d", format |-> "R", opcode |-> \b0101111, funct3 |-> \b011, funct7 |-> \b0000011, operandPattern |-> "rd_rs1_rs2", minXlen |-> 64],
     [name |-> "amoswap.w", format |-> "R", opcode |-> \b0101111, funct3 |-> \b010, funct7 |-> \b0000001, operandPattern |-> "rd_rs1_rs2", minXlen |-> 32],
     [name |-> "amoswap.d", format |-> "R", opcode |-> \b0101111, funct3 |-> \b011, funct7 |-> \b0000001, operandPattern |-> "rd_rs1_rs2", minXlen |-> 64],
     [name |-> "amoadd.w", format |-> "R", opcode |-> \b0101111, funct3 |-> \b010, funct7 |-> \b0000000, operandPattern |-> "rd_rs1_rs2", minXlen |-> 32],
     [name |-> "amoadd.d", format |-> "R", opcode |-> \b0101111, funct3 |-> \b011, funct7 |-> \b0000000, operandPattern |-> "rd_rs1_rs2", minXlen |-> 64],
     [name |-> "amoand.w", format |-> "R", opcode |-> \b0101111, funct3 |-> \b010, funct7 |-> \b0001100, operandPattern |-> "rd_rs1_rs2", minXlen |-> 32],
     [name |-> "amoand.d", format |-> "R", opcode |-> \b0101111, funct3 |-> \b011, funct7 |-> \b0001100, operandPattern |-> "rd_rs1_rs2", minXlen |-> 64],
     [name |-> "amoor.w", format |-> "R", opcode |-> \b0101111, funct3 |-> \b010, funct7 |-> \b0001000, operandPattern |-> "rd_rs1_rs2", minXlen |-> 32],
     [name |-> "amoor.d", format |-> "R", opcode |-> \b0101111, funct3 |-> \b011, funct7 |-> \b0001000, operandPattern |-> "rd_rs1_rs2", minXlen |-> 64],
     [name |-> "amoxor.w", format |-> "R", opcode |-> \b0101111, funct3 |-> \b010, funct7 |-> \b0000100, operandPattern |-> "rd_rs1_rs2", minXlen |-> 32],
     [name |-> "amoxor.d", format |-> "R", opcode |-> \b0101111, funct3 |-> \b011, funct7 |-> \b0000100, operandPattern |-> "rd_rs1_rs2", minXlen |-> 64],
     [name |-> "amomin.w", format |-> "R", opcode |-> \b0101111, funct3 |-> \b010, funct7 |-> \b0010000, operandPattern |-> "rd_rs1_rs2", minXlen |-> 32],
     [name |-> "amomin.d", format |-> "R", opcode |-> \b0101111, funct3 |-> \b011, funct7 |-> \b0010000, operandPattern |-> "rd_rs1_rs2", minXlen |-> 64],
     [name |-> "amomax.w", format |-> "R", opcode |-> \b0101111, funct3 |-> \b010, funct7 |-> \b0010100, operandPattern |-> "rd_rs1_rs2", minXlen |-> 32],
     [name |-> "amomax.d", format |-> "R", opcode |-> \b0101111, funct3 |-> \b011, funct7 |-> \b0010100, operandPattern |-> "rd_rs1_rs2", minXlen |-> 64],
     [name |-> "amominu.w", format |-> "R", opcode |-> \b0101111, funct3 |-> \b010, funct7 |-> \b0011000, operandPattern |-> "rd_rs1_rs2", minXlen |-> 32],
     [name |-> "amominu.d", format |-> "R", opcode |-> \b0101111, funct3 |-> \b011, funct7 |-> \b0011000, operandPattern |-> "rd_rs1_rs2", minXlen |-> 64],
     [name |-> "amomaxu.w", format |-> "R", opcode |-> \b0101111, funct3 |-> \b010, funct7 |-> \b0011100, operandPattern |-> "rd_rs1_rs2", minXlen |-> 32],
     [name |-> "amomaxu.d", format |-> "R", opcode |-> \b0101111, funct3 |-> \b011, funct7 |-> \b0011100, operandPattern |-> "rd_rs1_rs2", minXlen |-> 64] >>

\* rvvInstructions (unnamed/part_002), 43 rows
rvvInstructions ==
  << [name |-> "vsetvli", format |-> "V", opcode |-> \b1010111, funct3 |-> \b111, operandPattern |-> "rd_rs1_imm", minXlen |-> 32],
     [name |-> "vsetvl", format |-> "R", opcode |-> \b1010111, funct3 |-> \b111, operandPattern |-> "rd_rs1_rs2", minXlen |-> 32],
     [name |-> "vadd.vv", format |-> "V", opcode |-> \b1010111, funct3 |-> \b000, funct6 |-> \b000000, operandPattern |-> "vd_vs1_vs2", minXlen |-> 32],
     [name |-> "vadd.vv.mask", format |-> "V", opcode |-> \b1010111, funct3 |-> \b000, funct6 |-> \b000000, operandPattern |-> "vd_vs1_vs2_vm", minXlen |-> 32],
     [name |-> "vsub.vv", format |-> "V", opcode |-> \b1010111, funct3 |-> \b000, funct6 |-> \b000010, operandPattern |-> "vd_vs1_vs2", minXlen |-> 32],
     [name |-> "vmin.vv", format |-> "V", opcode |-> \b1010111, funct3 |-> \b000, funct6 |-> \b000101, operandPattern |-> "vd_vs1_vs2", minXlen |-> 32],
     [name |-> "vmax.vv", format |-> "V", opcode |-> \b1010111, funct3 |-> \b000, funct6 |-> \b000111, operandPattern |-> "vd_vs1_vs2", minXlen |-> 32],
     [name |-> "vmul.vv", format |-> "V", opcode |-> \b1010111, funct3 |-> \b000, funct6 |-> \b100101, operandPattern |-> "vd_vs1_vs2", minXlen |-> 32],
     [name |-> "vdiv.vv", format |-> "V", opcode |-> \b1010111, funct3 |-> \b000, funct6 |-> \b100000, operandPattern |-> "vd_vs1_vs2", minXlen |-> 32],
     [name |-> "vrem.vv", format |-> "V", opcode |-> \b1010111, funct3 |-> \b000, funct6 |-> \b100001, operandPattern |-> "vd_vs1_vs2", minXlen |-> 32],
     [name |-> "vadd.vx", format |-> "V", opcode |-> \b1010111, funct3 |-> \b100, funct6 |-> \b000000, operandPattern |-> "vd_vs1_rs2", minXlen |-> 32],
     [name |-> "vsub.vx", format |-> "V", opcode |-> \b1010111, funct3 |-> \b100, funct6 |-> \b000010, operandPattern |-> "vd_vs1_rs2", minXlen |-> 32],
     [name |-> "vmul.vx", format |-> "V", opcode |-> \b1010111, funct3 |-> \b100, funct6 |-> \b100101, operandPattern |-> "vd_vs1_rs2", minXlen |-> 32],
     [name |-> "vadd.vi", format |-> "V", opcode |-> \b1010111, funct3 |-> \b011, funct6 |-> \b000000, operandPattern |-> "vd_vs1_imm", minXlen |-> 32],
     [name |-> "vand.vv", format |-> "V", opcode |-> \b1010111, funct3 |-> \b000, funct6 |-> \b001001, operandPattern |-> "vd_vs1_vs2", minXlen |-> 32],
     [name |-> "vor.vv", format |-> "V", opcode |-> \b1010111, funct3 |-> \b000, funct6 |-> \b001010, operandPattern |-> "vd_vs1_vs2", minXlen |-> 32],
     [name |-> "vxor.vv", format |-> "V", opcode |-> \b1010111, funct3 |-> \b000, funct6 |-> \b001011, operandPattern |-> "vd_vs1_vs2", minXlen |-> 32],
     [name |-> "vand.vx", format |-> "V", opcode |-> \b1010111, funct3 |-> \b100, funct6 |-> \b001001, operandPattern |-> "vd_vs1_rs2", minXlen |-> 32],
     [name |-> "vor.vx", format |-> "V", opcode |-> \b1010111, funct3 |-> \b100, funct6 |-> \b001010, operandPattern |-> "vd_vs1_rs2", minXlen |-> 32],
     [name |-> "vxor.vx", format |-> "V", opcode |-> \b1010111, funct3 |-> \b100, funct6 |-> \b001011, operandPattern |-> "vd_vs1_rs2", minXlen |-> 32],
     [name |-> "vsll.vv", format |-> "V", opcode |-> \b1010111, funct3 |-> \b000, funct6 |-> \b100101, operandPattern |-> "vd_vs1_vs2", minXlen |-> 32],
     [name |-> "vsrl.vv", format |-> "V", opcode |-> \b1010111, funct3 |-> \b000, funct6 |-> \b101000, operandPattern |-> "vd_vs1_vs2", minXlen |-> 32],
     [name |-> "vsra.vv", format |-> "V", opcode |-> \b1010111, funct3 |-> \b000, funct6 |-> \b101001, operandPattern |-> "vd_vs1_vs2", minXlen |-> 32],
     [name |-> "vsll.vx", format |-> "V", opcode |-> \b1010111, funct3 |-> \b100, funct6 |-> \b100101, operandPattern |-> "vd_vs1_rs2", minXlen |-> 32],
     [name |-> "vsrl.vx", format |-> "V", opcode |-> \b1010111, funct3 |-> \b100, funct6 |-> \b101000, operandPattern |-> "vd_vs1_rs2", minXlen |-> 32],
     [name |-> "vsra.vx", format |-> "V", opcode |-> \b1010111, funct3 |-> \b100, funct6 |-> \b101001, operandPattern |-> "vd_vs1_rs2", minXlen |-> 32],
     [name |-> "vmseq.vv", format |-> "V", opcode |-> \b1010111, funct3 |-> \b000, funct6 |-> \b011000, operandPattern |-> "vd_vs1_vs2", minXlen |-> 32],
     [name |-> "vmsne.vv", format |-> "V", opcode |-> \b1010111, funct3 |-> \b000, funct6 |-> \b011001, operandPattern |-> "vd_vs1_vs2", minXlen |-> 32],
     [name |-> "vmslt.vv", format |-> "V", opcode |-> \b1010111, funct3 |-> \b000, funct6 |-> \b011011, operandPattern |-> "vd_vs1_vs2", minXlen |-> 32],
     [name |-> "vmsle.vv", format |-> "V", opcode |-> \b1010111, funct3 |-> \b000, funct6 |-> \b011101, operandPattern |-> "vd_vs1_vs2", minXlen |-> 32],
     [name |-> "vmseq.vx", format |-> "V", opcode |-> \b1010111, funct3 |-> \b100, funct6 |-> \b011000, operandPattern |-> "vd_vs1_rs2", minXlen |-> 32],
     [name |-> "vmsne.vx", format |-> "V", opcode |-> \b1010111, funct3 |-> \b100, funct6 |-> \b011001, operandPattern |-> "vd_vs1_rs2", minXlen |-> 32],
     [name |-> "vle8.v", format |-> "VL", opcode |-> \b0000111, funct3 |-> \b000, operandPattern |-> "vd_mem", minXlen |-> 32],
     [name |-> "vle16.v", format |-> "VL", opcode |-> \b0000111, funct3 |-> \b101, operandPattern |-> "vd_mem", minXlen |-> 32],
     [name |-> "vle32.v", format |-> "VL", opcode |-> \b0000111, funct3 |-> \b110, operandPattern |-> "vd_mem", minXlen |-> 32],
     [name |-> "vle64.v", format |-> "VL", opcode |-> \b0000111, funct3 |-> \b111, operandPattern |-> "vd_mem", minXlen |-> 64],
     [name |-> "vse8.v", format |-> "VS", opcode |-> \b0100111, funct3 |-> \b000, operandPattern |-> "vs_mem", minXlen |-> 32],
     [name |-> "vse16.v", format |-> "VS", opcode |-> \b0100111, funct3 |-> \b101, operandPattern |-> "vs_mem", minXlen |-> 32],
     [name |-> "vse32.v", format |-> "VS", opcode |-> \b0100111, funct3 |-> \b110, operandPattern |-> "vs_mem", minXlen |-> 32],
     [name |-> "vse64.v", format |-> "VS", opcode |-> \b0100111, funct3 |-> \b111, operandPattern |-> "vs_mem", minXlen |-> 64],
     [name |-> "vredsum.vs", format |-> "V", opcode |-> \b1010111, funct3 |-> \b010, funct6 |-> \b000000, operandPattern |-> "vd_vs1_vs2", minXlen |-> 32],
     [name |-> "vredmax.vs", format |-> "V", opcode |-> \b1010111, funct3 |-> \b010, funct6 |-> \b000111, operandPattern |-> "vd_vs1_vs2", minXlen |-> 32],
     [name |-> "vredmin.vs", format |-> "V", opcode |-> \b1010111, funct3 |-> \b010, funct6 |-> \b000101, operandPattern |-> "vd_vs1_vs2", minXlen |-> 32] >>

\* The tables of the E and C extensions are imported by instruction-set.ts
\* but their rows are not part of the available sources.  rv32e / rv64e
\* contribute no rows here; the compressed table is represented by a few
\* rows keyed, as section 4.4 step 3 of the specification describes, by the
\* synthetic opcode  quadrant | (funct3 << 2).
rv32eInstructions == << >>

rv64eInstructions == << >>

rvcInstructions ==
  << [name |-> "c.lw", format |-> "CL", opcode |-> \b01000, funct3 |-> \b010, operandPattern |-> "rd_rs1_nzuimm6"],
     [name |-> "c.addi", format |-> "CI", opcode |-> \b00001, funct3 |-> \b000, operandPattern |-> "rd_rs1_nzimm6"],
     [name |-> "c.li", format |-> "CI", opcode |-> \b01001, funct3 |-> \b010, operandPattern |-> "rd_nzimm6"],
     [name |-> "c.j", format |-> "CJ", opcode |-> \b10101, funct3 |-> \b101, operandPattern |-> "rd_nzimm11"],
     [name |-> "c.mv", format |-> "CR", opcode |-> \b10010, funct4 |-> \b1000, operandPattern |-> "rd_rs2"],
     [name |-> "c.add", format |-> "CR", opcode |-> \b10010, funct4 |-> \b1001, operandPattern |-> "rd_rs2"] >>

(***************************************************************************)
(* instruction-set.ts                                                      *)
(***************************************************************************)
\* the value of an optional InstructionSpec field that a row does not set
Undefined ==
  [funct2 |-> None, funct3 |-> None, funct4 |-> None, funct6 |-> None,
   funct7 |-> None, immBits |-> None, unsignedImmediate |-> FALSE,
   fixedImmediate |-> None, minXlen |-> None]

instructionGroups ==
  << rv32iInstructions, rv32mInstructions, rv64iInstructions,
     rv64mInstructions, rvbInstructions, rvfInstructions, rvdInstructions,
     rvqInstructions, rv128iInstructions, rv32eInstructions,
     rv64eInstructions, rvaInstructions, rvcInstructions, rvvInstructions >>

RECURSIVE Flat(_)
Flat(groups) == IF groups = << >> THEN << >>
                ELSE Head(groups) \o Flat(Tail(groups))

\* rows lo..hi, each with its absent optional fields made explicit
RECURSIVE Rows(_, _, _)
Rows(rows, lo, hi) ==
  IF lo > hi THEN << >>
  ELSE IF lo = hi THEN <<rows[lo] @@ Undefined>>
  ELSE LET mid == (lo + hi) \div 2
       IN Rows(rows, lo, mid) \o Rows(rows, mid + 1, hi)

\* instructionGroups.flat()
instructionSet ==
  LET rows == Flat(instructionGroups) IN Rows(rows, 1, Len(rows))

\* new Map(instructionSet.map(spec => [spec.name, spec])): the entries are
\* set in table order, a later row of the same name replaces an earlier one
RECURSIVE MapByName(_, _)
MapByName(lo, hi) ==
  IF lo > hi THEN << >>
  ELSE IF lo = hi THEN instructionSet[lo].name :> instructionSet[lo]
  ELSE LET mid == (lo + hi) \div 2
       IN MapByName(mid + 1, hi) @@ MapByName(lo, mid)

instructionsByName == MapByName(1, Len(instructionSet))

\* the reduce of instruction-set.ts:41-48: per opcode, the rows in table order
RECURSIVE ReduceByOpcode(_)
ReduceByOpcode(opcodes) ==
  IF opcodes = {} THEN << >>
  ELSE LET o == CHOOSE opcode \in opcodes : TRUE
       IN (o :> SelectSeq(instructionSet, LAMBDA spec : spec.opcode = o))
          @@ ReduceByOpcode(opcodes \ {o})

instructionsByOpcode ==
  ReduceByOpcode({instructionSet[k].opcode : k \in 1..Len(instructionSet)})

\* spec.minXlen ?? 32
Required(spec) == IF spec.minXlen = None THEN 32 ELSE spec.minXlen

\* XLenMode: the literal 'auto' or a width
Auto == 0
XLenModes == {Auto, 32, 64, 128}


(***************************************************************************)
(* The two indices as the process holds them.  A Map of instruction-set.ts *)
(* is built once when the module is loaded and lives as long as the        *)
(* process; its entries refer to the rows of instructionSet, here by their *)
(* place in that array.                                                    *)
(***************************************************************************)
VARIABLES
  byName,        \* instructionsByName: mnemonic -> row
  byOpcode       \* instructionsByOpcode: opcode -> the stored list of rows

\* the Maps as the module initialisation leaves them
IndexByName ==
  [name \in DOMAIN instructionsByName |->
     CHOOSE k \in 1..Len(instructionSet) :
       /\ instructionSet[k].name = name
       /\ \A j \in (k + 1)..Len(instructionSet) : instructionSet[j].name # name]

\* the places of the rows with this opcode, in table order
Places(opcode) ==
  SelectSeq([k \in 1..Len(instructionSet) |-> k],
            LAMBDA k : instructionSet[k].opcode = opcode)

IndexByOpcode == [opcode \in DOMAIN instructionsByOpcode |-> Places(opcode)]

\* instructionsByName.get(mnemonic), for a mnemonic the Map has
SpecByName(mnemonic) == instructionSet[byName[mnemonic]]

\* instructionsByOpcode.get(opcode), for an opcode the Map has
Candidates(opcode) ==
  [k \in 1..Len(byOpcode[opcode]) |-> instructionSet[byOpcode[opcode][k]]]
(***************************************************************************)
(* Assembler: operand parsing and the packing routines                     *)
(***************************************************************************)
\* x ?? d
Dflt(x, d) == IF x = None THEN d ELSE x

Name(s) == [t |-> "name", s |-> s, v |-> 0]
Dec(v) == [t |-> "dec", s |-> "", v |-> v]
Hex(v) == [t |-> "hex", s |-> "", v |-> v]
Mem(v, s) == [t |-> "mem", s |-> s, v |-> v]

ensureOperandCount(operands, expected, line, description) ==
  IF Len(operands) # expected
  THEN Throw(AnalyzerError("Expected operand count", line))
  ELSE Ok(0)

\* registers.ts throws a plain Error; this wrapper turns it into an
\* AnalyzerError that carries the line
parseRegisterOperand(token, role, line, isEmbedded) ==
  LET r == parseRegister(token, isEmbedded)
  IN IF r.ok THEN r ELSE Throw(AnalyzerError("Invalid register", line))

parseFloatRegisterOperand(token, role, line) ==
  LET r == parseFloatRegister(token)
  IN IF r.ok THEN r ELSE Throw(AnalyzerError("Invalid float register", line))

\* The text of an operand as the pieces it is made of: a parenthesis is a
\* piece, and so is every maximal run of other characters (a literal, a
\* name); no piece is empty.  Mem(v, s) is the text  v(s).
Paren(c) == [t |-> c, s |-> "", v |-> 0]

Text(pieces) == [t |-> "text", s |-> "", v |-> 0, p |-> pieces]

Pieces(token) ==
  IF token.t = "text" THEN token.p
  ELSE IF token.t = "mem" THEN <<Dec(token.v), Paren("("), Name(token.s), Paren(")")>>
  ELSE <<token>>

\* text.indexOf(c, from): the 0-based place of the first c at or after from,
\* -1 when there is none
IndexOf(pieces, c, from) ==
  IF \E k \in (from + 1)..Len(pieces) : pieces[k].t = c
  THEN (CHOOSE k \in (from + 1)..Len(pieces) :
          /\ pieces[k].t = c
          /\ \A j \in (from + 1)..(k - 1) : pieces[j].t # c) - 1
  ELSE -1

\* text.slice(from, to) as one token: a single piece is that literal or
\* name, the empty text is the token `empty`, and a text of several pieces holds a
\* parenthesis and is neither a literal nor a register name
TextSlice(pieces, from, to) ==
  IF to - from = 1 THEN pieces[from + 1]
  ELSE IF to <= from THEN [t |-> "empty", s |-> "", v |-> 0]
  ELSE [t |-> "bad", s |-> "", v |-> 0]

\* offsetText || '0'
OrZero(token) == IF token.t = "empty" THEN Dec(0) ELSE token

\* parseMemoryOperand: '(' not first, the first ')' after it last
parseMemoryOperand(token, line, isEmbedded) ==
  LET trimmed == Pieces(token)
      open == IndexOf(trimmed, "(", 0)
      close == IndexOf(trimmed, ")", open + 1)
  IN IF open <= 0 \/ close # Len(trimmed) - 1
     THEN Throw(AnalyzerError("Invalid memory operand", line))
     ELSE LET offset == parseImmediate(OrZero(TextSlice(trimmed, 0, open)), 12, TRUE, line,
                                       "offset")
              base == parseRegisterOperand(TextSlice(trimmed, open + 1, close), "base", line,
                                           isEmbedded)
          IN Try(<<offset, base>>, Ok([base |-> base.v, offset |-> offset.v]))

assembleRType(spec, operands, line, isEmbedded) ==
  LET n == IF spec.operandPattern = "rd_rs1" THEN 2 ELSE 3
      count == ensureOperandCount(operands, n, line, spec.name)
  IN IF ~count.ok THEN count
     ELSE LET rd == parseRegisterOperand(operands[1], "rd", line, isEmbedded)
              rs1 == parseRegisterOperand(operands[2], "rs1", line, isEmbedded)
              rs2 == IF n = 3
                     THEN parseRegisterOperand(operands[3], "rs2", line, isEmbedded)
                     ELSE Ok(0)
          IN Try(<<rd, rs1, rs2>>,
               IF spec.funct3 = None \/ spec.funct7 = None
               THEN Throw(AnalyzerError("Missing funct fields", line))
               ELSE Ok(BitOr({Shl(ToBits(spec.funct7, 7), 25),
                              Shl(ToBits(rs2.v, 5), 20),
                              Shl(ToBits(rs1.v, 5), 15),
                              Shl(ToBits(spec.funct3, 3), 12),
                              Shl(ToBits(rd.v, 5), 7),
                              ToBits(spec.opcode, 7)})))

assembleFloatRType(spec, operands, line) ==
  LET p == spec.operandPattern
      n == IF p \in {"fd_fs1_fs2", "rd_fs1_fs2"} THEN 3 ELSE 2
      count == ensureOperandCount(operands, n, line, spec.name)
  IN IF p \notin {"fd_fs1_fs2", "fd_fs1", "fd_rs1", "rd_fs1", "rd_fs1_fs2"}
     THEN Throw(AnalyzerError("Unsupported float operand pattern", line))
     ELSE IF ~count.ok THEN count
     ELSE LET fd == IF p \in {"fd_fs1_fs2", "fd_fs1", "fd_rs1"}
                    THEN parseFloatRegisterOperand(operands[1], "fd", line)
                    ELSE Ok(0)
              rd == IF p \in {"rd_fs1", "rd_fs1_fs2"}
                    THEN parseRegisterOperand(operands[1], "rd", line, FALSE)
                    ELSE Ok(0)
              \* parsed for fd_rs1, but never packed into the word
              rs1 == IF p = "fd_rs1"
                     THEN parseRegisterOperand(operands[2], "rs1", line, FALSE)
                     ELSE Ok(0)
              fs1 == IF p # "fd_rs1"
                     THEN parseFloatRegisterOperand(operands[2], "fs1", line)
                     ELSE Ok(0)
              fs2 == IF n = 3
                     THEN parseFloatRegisterOperand(operands[3], "fs2", line)
                     ELSE Ok(0)
          IN Try(<<fd, rd, rs1, fs1, fs2>>,
               IF spec.funct3 = None \/ spec.funct7 = None
               THEN Throw(AnalyzerError("Missing funct fields", line))
               ELSE Ok(BitOr({Shl(ToBits(spec.funct7, 7), 25),
                              Shl(ToBits(fs2.v, 5), 20),
                              Shl(ToBits(fs1.v, 5), 15),
                              Shl(ToBits(spec.funct3, 3), 12),
                              Shl(ToBits(rd.v, 5) \cup ToBits(fd.v, 5), 7),
                              ToBits(spec.opcode, 7)})))

\* the only routine that calls parseFloatRegister without the wrapper
assembleFloatR4Type(spec, operands, line) ==
  IF Len(operands) # 4
  THEN Throw(AnalyzerError("Expected 4 operands", line))
  ELSE LET fd == parseFloatRegister(operands[1])
           fs1 == parseFloatRegister(operands[2])
           fs2 == parseFloatRegister(operands[3])
           fs3 == parseFloatRegister(operands[4])
       IN Try(<<fd, fs1, fs2, fs3>>,
            Ok(BitOr({Int32Bits(spec.opcode),
                      Shl(Int32Bits(fd.v), 7),
                      Shl(Int32Bits(Dflt(spec.funct2, 0)), 12),
                      Shl(Int32Bits(fs1.v), 15),
                      Shl(Int32Bits(fs2.v), 20),
                      Shl(Int32Bits(fs3.v), 27)})))

assembleIType(spec, operands, line, isEmbedded) ==
  LET hasFixedImm == spec.fixedImmediate # None
      expectedOperands == IF hasFixedImm THEN 2 ELSE 3
      count == ensureOperandCount(operands, expectedOperands, line, spec.name)
  IN IF ~count.ok THEN count
     ELSE LET rd == parseRegisterOperand(operands[1], "rd", line, isEmbedded)
              rs1 == parseRegisterOperand(operands[2], "rs1", line, isEmbedded)
              imm == IF hasFixedImm THEN Ok(spec.fixedImmediate)
                     ELSE parseImmediate(operands[3], Dflt(spec.immBits, 12),
                                         ~spec.unsignedImmediate, line, "immediate")
          IN Try(<<rd, rs1, imm>>,
               Ok(BitOr({Shl(ToBits(imm.v, Dflt(spec.immBits, 12)), 20),
                         Shl(ToBits(rs1.v, 5), 15),
                         Shl(ToBits(Dflt(spec.funct3, 0), 3), 12),
                         Shl(ToBits(rd.v, 5), 7),
                         ToBits(spec.opcode, 7),
                         IF spec.funct7 # None
                         THEN Shl(ToBits(spec.funct7, 7), 25) ELSE {}})))

assembleLoad(spec, operands, line, isEmbedded) ==
  LET count == ensureOperandCount(operands, 2, line, spec.name)
  IN IF ~count.ok THEN count
     ELSE LET rd == IF spec.format = "FI"
                    THEN parseFloatRegisterOperand(operands[1], "rd", line)
                    ELSE parseRegisterOperand(operands[1], "rd", line, isEmbedded)
              mem == parseMemoryOperand(operands[2], line, isEmbedded)
          IN Try(<<rd, mem>>,
               Ok(BitOr({Shl(ToBits(mem.v.offset, 12), 20),
                         Shl(ToBits(mem.v.base, 5), 15),
                         Shl(ToBits(Dflt(spec.funct3, 0), 3), 12),
                         Shl(ToBits(rd.v, 5), 7),
                         ToBits(spec.opcode, 7)})))

assembleStore(spec, operands, line, isEmbedded) ==
  LET count == ensureOperandCount(operands, 2, line, spec.name)
  IN IF ~count.ok THEN count
     ELSE LET rs2 == IF spec.format = "FS"
                     THEN parseFloatRegisterOperand(operands[1], "rs2", line)
                     ELSE parseRegisterOperand(operands[1], "rs2", line, isEmbedded)
              mem == parseMemoryOperand(operands[2], line, isEmbedded)
          IN Try(<<rs2, mem>>,
               LET imm == ToBits(mem.v.offset, 12)
                   immHi == Field(imm, 5, 7)
                   immLo == Field(imm, 0, 5)
               IN Ok(BitOr({Shl(ToBits(immHi, 7), 25),
                            Shl(ToBits(rs2.v, 5), 20),
                            Shl(ToBits(mem.v.base, 5), 15),
                            Shl(ToBits(Dflt(spec.funct3, 0), 3), 12),
                            Shl(ToBits(immLo, 5), 7),
                            ToBits(spec.opcode, 7)})))

\* a branch packer without the alignment test: the low bit is dropped
assembleBranch_Unaligned(spec, operands, line, isEmbedded) ==
  LET count == ensureOperandCount(operands, 3, line, spec.name)
  IN IF ~count.ok THEN count
     ELSE LET rs1 == parseRegisterOperand(operands[1], "rs1", line, isEmbedded)
              rs2 == parseRegisterOperand(operands[2], "rs2", line, isEmbedded)
              imm == parseImmediate(operands[3], Dflt(spec.immBits, 13), TRUE,
                                    line, "branch offset")
          IN Try(<<rs1, rs2, imm>>,
               IF FALSE
               THEN Throw(AnalyzerError("Branch offset must be aligned to 2 bytes", line))
               ELSE LET b == Int32Bits(imm.v)
                    IN Ok(BitOr({Shl(ToBits(Field(b, 12, 1), 1), 31),
                                 Shl(ToBits(Field(b, 5, 6), 6), 25),
                                 Shl(ToBits(rs2.v, 5), 20),
                                 Shl(ToBits(rs1.v, 5), 15),
                                 Shl(ToBits(Dflt(spec.funct3, 0), 3), 12),
                                 Shl(ToBits(Field(b, 1, 4), 4), 8),
                                 Shl(ToBits(Field(b, 11, 1), 1), 7),
                                 ToBits(spec.opcode, 7)})))

assembleBranch(spec, operands, line, isEmbedded) ==
  LET count == ensureOperandCount(operands, 3, line, spec.name)
  IN IF ~count.ok THEN count
     ELSE LET rs1 == parseRegisterOperand(operands[1], "rs1", line, isEmbedded)
              rs2 == parseRegisterOperand(operands[2], "rs2", line, isEmbedded)
              imm == parseImmediate(operands[3], Dflt(spec.immBits, 13), TRUE,
                                    line, "branch offset")
          IN Try(<<rs1, rs2, imm>>,
               IF imm.v % 2 # 0
               THEN Throw(AnalyzerError("Branch offset must be aligned to 2 bytes", line))
               ELSE LET b == Int32Bits(imm.v)
                    IN Ok(BitOr({Shl(ToBits(Field(b, 12, 1), 1), 31),
                                 Shl(ToBits(Field(b, 5, 6), 6), 25),
                                 Shl(ToBits(rs2.v, 5), 20),
                                 Shl(ToBits(rs1.v, 5), 15),
                                 Shl(ToBits(Dflt(spec.funct3, 0), 3), 12),
                                 Shl(ToBits(Field(b, 1, 4), 4), 8),
                                 Shl(ToBits(Field(b, 11, 1), 1), 7),
                                 ToBits(spec.opcode, 7)})))

assembleUType(spec, operands, line, isEmbedded) ==
  LET count == ensureOperandCount(operands, 2, line, spec.name)
  IN IF ~count.ok THEN count
     ELSE LET rd == parseRegisterOperand(operands[1], "rd", line, isEmbedded)
              imm == parseImmediate(operands[2], Dflt(spec.immBits, 20), TRUE,
                                    line, "immediate")
          IN Try(<<rd, imm>>,
               Ok(BitOr({Shl(ToBits(imm.v, Dflt(spec.immBits, 20)), 12),
                         Shl(ToBits(rd.v, 5), 7),
                         ToBits(spec.opcode, 7)})))

assembleJump(spec, operands, line, isEmbedded) ==
  LET count == ensureOperandCount(operands, 2, line, spec.name)
  IN IF ~count.ok THEN count
     ELSE LET rd == parseRegisterOperand(operands[1], "rd", line, isEmbedded)
              imm == parseImmediate(operands[2], Dflt(spec.immBits, 21), TRUE,
                                    line, "jump offset")
          IN Try(<<rd, imm>>,
               IF imm.v % 2 # 0
               THEN Throw(AnalyzerError("Jump offset must be aligned to 2 bytes", line))
               ELSE LET b == Int32Bits(imm.v)
                    IN Ok(BitOr({Shl(ToBits(Field(b, 20, 1), 1), 31),
                                 Shl(ToBits(Field(b, 1, 10), 10), 21),
                                 Shl(ToBits(Field(b, 11, 1), 1), 20),
                                 Shl(ToBits(Field(b, 12, 8), 8), 12),
                                 Shl(ToBits(rd.v, 5), 7),
                                 ToBits(spec.opcode, 7)})))

assembleZeroOperand(spec, operands, line) ==
  LET count == ensureOperandCount(operands, 0, line, spec.name)
  IN IF ~count.ok THEN count
     ELSE Ok(BitOr({Shl(ToBits(Dflt(spec.fixedImmediate, 0), Dflt(spec.immBits, 12)), 20),
                    Shl(ToBits(Dflt(spec.funct3, 0), 3), 12),
                    ToBits(spec.opcode, 7)}))

\* the letters of a fence set in the order i, o, r, w, indexed by the mask
\* (i = 8, o = 4, r = 2, w = 1); parseFenceMask accepts the letters in any
\* order, the tokens of this model use this order
fenceName ==
  << "w", "r", "rw", "o", "ow", "or", "orw", "i", "iw", "ir", "irw", "io",
     "iow", "ior", "iorw" >>

parseFenceMask(token, line) ==
  IF token.t = "dec" /\ token.v = 0 THEN Ok({})
  ELSE IF token.t = "name" /\ \E m \in 1..15 : fenceName[m] = token.s
  THEN Ok(ToBits(CHOOSE m \in 1..15 : fenceName[m] = token.s, 4))
  ELSE Throw(AnalyzerError("Invalid fence operand", line))

assembleFence(spec, operands, line) ==
  IF Len(operands) # 0 /\ Len(operands) # 2
  THEN Throw(AnalyzerError("Expected operand count", line))
  ELSE LET predMask == IF Len(operands) = 2 THEN parseFenceMask(operands[1], line)
                       ELSE Ok({0, 1, 2, 3})
           succMask == IF Len(operands) = 2 THEN parseFenceMask(operands[2], line)
                       ELSE Ok({0, 1, 2, 3})
       IN Try(<<predMask, succMask>>,
            LET baseImm == Int32Bits(Dflt(spec.fixedImmediate, 0))
                imm == BitOr({baseImm, Shl(succMask.v, 4), predMask.v})
                         \cap (0..(Dflt(spec.immBits, 12) - 1))
            IN Ok(BitOr({Shl(imm, 20),
                         Shl(ToBits(Dflt(spec.funct3, 0), 3), 12),
                         ToBits(spec.opcode, 7)})))

assembleCsrRegister(spec, operands, line, isEmbedded) ==
  LET count == ensureOperandCount(operands, 3, line, spec.name)
  IN IF ~count.ok THEN count
     ELSE LET rd == parseRegisterOperand(operands[1], "rd", line, isEmbedded)
              csr == parseImmediate(operands[2], 12, FALSE, line, "csr")
              rs1 == parseRegisterOperand(operands[3], "rs1", line, isEmbedded)
          IN Try(<<rd, csr, rs1>>,
               Ok(BitOr({Shl(ToBits(csr.v, 12), 20),
                         Shl(ToBits(rs1.v, 5), 15),
                         Shl(ToBits(Dflt(spec.funct3, 0), 3), 12),
                         Shl(ToBits(rd.v, 5), 7),
                         ToBits(spec.opcode, 7)})))

assembleCsrImmediate(spec, operands, line, isEmbedded) ==
  LET count == ensureOperandCount(operands, 3, line, spec.name)
  IN IF ~count.ok THEN count
     ELSE LET rd == parseRegisterOperand(operands[1], "rd", line, isEmbedded)
              csr == parseImmediate(operands[2], 12, FALSE, line, "csr")
              zimm == parseImmediate(operands[3], 5, FALSE, line, "immediate")
          IN Try(<<rd, csr, zimm>>,
               Ok(BitOr({Shl(ToBits(csr.v, 12), 20),
                         Shl(ToBits(zimm.v, 5), 15),
                         Shl(ToBits(Dflt(spec.funct3, 0), 3), 12),
                         Shl(ToBits(rd.v, 5), 7),
                         ToBits(spec.opcode, 7)})))

\* parseVectorRegister and parseRegister are called without a wrapper
assembleVType(spec, operands, line) ==
  LET p == spec.operandPattern
      three == p \in {"vd_vs1_vs2", "vd_vs1_vs2_vm", "vd_vs1_rs2",
                      "vd_vs1_rs2_vm", "vd_vs1_imm", "vd_vs1_imm_vm"}
      count == ensureOperandCount(operands, IF three THEN 3 ELSE 2, line, spec.name)
  IN IF ~count.ok THEN count
     ELSE LET vd == parseVectorRegister(operands[1])
              vs1 == IF p \in {"vd_rs1", "vd_rs1_vm"} THEN Ok(0)
                     ELSE parseVectorRegister(operands[2])
              vs2 == IF p \in {"vd_vs1_vs2", "vd_vs1_vs2_vm"}
                     THEN parseVectorRegister(operands[3]) ELSE Ok(0)
              rs2 == IF p \in {"vd_vs1_rs2", "vd_vs1_rs2_vm"}
                     THEN parseRegister(operands[3], FALSE)
                     ELSE IF p \in {"vd_rs1", "vd_rs1_vm"}
                     THEN parseRegister(operands[2], FALSE)
                     ELSE Ok(0)
              imm == IF p \in {"vd_vs1_imm", "vd_vs1_imm_vm"}
                     THEN parseImmediate(operands[3], 5, TRUE, line, "immediate")
                     ELSE Ok(0)
              vm == IF p \in {"vd_vs1_vs2_vm", "vd_vs1_rs2_vm", "vd_vs1_imm_vm",
                              "vd_rs1_vm", "vd_vs1_vm"} THEN 0 ELSE 1
          IN Try(<<vd, vs1, vs2, rs2, imm>>,
               LET rs1Field == IF p \in {"vd_vs1_rs2", "vd_vs1_rs2_vm"}
                               THEN rs2.v ELSE vs1.v
               IN Ok(BitOr({ToBits(spec.opcode, 7),
                            Shl(ToBits(vm, 1), 25),
                            Shl(ToBits(vs2.v, 5), 20),
                            Shl(ToBits(rs1Field, 5), 15),
                            Shl(ToBits(Dflt(spec.funct3, 0), 3), 12),
                            Shl(ToBits(vd.v, 5), 7),
                            Shl(ToBits(Dflt(spec.funct6, 0), 6), 26),
                            IF p \in {"vd_vs1_imm", "vd_vs1_imm_vm"}
                            THEN Shl(ToBits(imm.v, 5), 15) ELSE {}})))

assembleVLoad(spec, operands, line) ==
  LET count == ensureOperandCount(operands, 2, line, spec.name)
  IN IF ~count.ok THEN count
     ELSE LET vd == parseVectorRegister(operands[1])
              mem == parseMemoryOperand(operands[2], line, FALSE)
          IN Try(<<vd, mem>>,
               Ok(BitOr({Shl(ToBits(mem.v.offset, 12), 20),
                         Shl(ToBits(mem.v.base, 5), 15),
                         Shl(ToBits(Dflt(spec.funct3, 0), 3), 12),
                         Shl(ToBits(vd.v, 5), 7),
                         ToBits(spec.opcode, 7)})))

assembleVStore(spec, operands, line) ==
  LET count == ensureOperandCount(operands, 2, line, spec.name)
  IN IF ~count.ok THEN count
     ELSE LET vs == parseVectorRegister(operands[1])
              mem == parseMemoryOperand(operands[2], line, FALSE)
          IN Try(<<vs, mem>>,
               LET b == Int32Bits(mem.v.offset)
               IN Ok(BitOr({Shl(ToBits(Field(b, 5, 7), 7), 25),
                            Shl(ToBits(vs.v, 5), 20),
                            Shl(ToBits(mem.v.base, 5), 15),
                            Shl(ToBits(Dflt(spec.funct3, 0), 3), 12),
                            Shl(ToBits(Field(b, 0, 5), 5), 7),
                            ToBits(spec.opcode, 7)})))

(***************************************************************************)
(* Pseudo-instruction expansion                                            *)
(***************************************************************************)
Inst(mnemonic, operands) == [mnemonic |-> mnemonic, operands |-> operands]

fitsSigned(value, bits) ==
  value >= 0 - Shl1(bits - 1) /\ value <= Shl1(bits - 1) - 1

\* ToInt32(imm + 0x800) for an int32 imm, without leaving the 32-bit range
AddWrap(imm, k) ==
  IF imm > MaxInt32 - k THEN (((imm - MaxInt32) - 1) + k) + MinInt32 ELSE imm + k

\* fitsSigned(a - b, 12) for int32 a, b; the difference is a double in the
\* code and may exceed 32 bits, in which case it does not fit
DiffFits12(a, b) ==
  IF a >= 0 /\ b < 0 /\ a > MaxInt32 + b THEN FALSE
  ELSE IF a < 0 /\ b > 0 /\ a < MinInt32 + b THEN FALSE
  ELSE fitsSigned(a - b, 12)

\* the result null ("not a pseudo-instruction") is the empty expansion
NotPseudo == Ok(<< >>)

expandLi(operands, line) ==
  LET count == ensureOperandCount(operands, 2, line, "li")
  IN IF ~count.ok THEN count
     ELSE LET dest == operands[1]
              imm == parseImmediate(operands[2], 32, TRUE, line, "immediate")
          IN IF ~imm.ok THEN imm
             ELSE IF fitsSigned(imm.v, 12)
             THEN Ok(<<Inst("addi", <<dest, Name("x0"), Dec(imm.v)>>)>>)
             ELSE LET upper == ToInt32(Sar(Int32Bits(AddWrap(imm.v, 2048)), 12))
                      upper12 == ToInt32(Shl(Int32Bits(upper), 12))
                  IN IF ~DiffFits12(imm.v, upper12)
                     THEN Throw(AnalyzerError("Cannot encode immediate after LUI", line))
                     ELSE LET lower == imm.v - upper12
                          IN IF upper # 0
                             THEN Ok(<<Inst("lui", <<dest, Dec(upper)>>)>>
                                     \o (IF lower # 0
                                         THEN <<Inst("addi", <<dest, dest, Dec(lower)>>)>>
                                         ELSE << >>))
                             ELSE Ok(<<Inst("addi", <<dest, Name("x0"), Dec(lower)>>)>>)

\* one-instruction pseudos: operand count, then the rewritten instruction
Rewrite(operands, expected, line, description, mnemonic, newOperands) ==
  LET count == ensureOperandCount(operands, expected, line, description)
  IN IF ~count.ok THEN count ELSE Ok(<<Inst(mnemonic, newOperands)>>)

\* an expansion that puts the register of blez first, as bgez does
expandPseudo_Swapped(m, operands, line) ==
  LET x0 == Name("x0")
  IN CASE m = "nop" -> Rewrite(operands, 0, line, m, "addi", <<x0, x0, Dec(0)>>)
       [] m = "mv" -> Rewrite(operands, 2, line, m, "addi", <<operands[1], operands[2], Dec(0)>>)
       [] m = "not" -> Rewrite(operands, 2, line, m, "xori", <<operands[1], operands[2], Dec(-1)>>)
       [] m = "neg" -> Rewrite(operands, 2, line, m, "sub", <<operands[1], x0, operands[2]>>)
       [] m = "negw" -> Rewrite(operands, 2, line, m, "subw", <<operands[1], x0, operands[2]>>)
       [] m = "sext.w" -> Rewrite(operands, 2, line, m, "addiw", <<operands[1], operands[2], Dec(0)>>)
       [] m = "seqz" -> Rewrite(operands, 2, line, m, "sltiu", <<operands[1], operands[2], Dec(1)>>)
       [] m = "snez" -> Rewrite(operands, 2, line, m, "sltu", <<operands[1], x0, operands[2]>>)
       [] m = "sltz" -> Rewrite(operands, 2, line, m, "slt", <<operands[1], operands[2], x0>>)
       [] m = "sgtz" -> Rewrite(operands, 2, line, m, "slt", <<operands[1], x0, operands[2]>>)
       [] m = "beqz" -> Rewrite(operands, 2, line, m, "beq", <<operands[1], x0, operands[2]>>)
       [] m = "bnez" -> Rewrite(operands, 2, line, m, "bne", <<operands[1], x0, operands[2]>>)
       [] m = "blez" -> Rewrite(operands, 2, line, m, "bge", <<operands[1], x0, operands[2]>>)
       [] m = "bgez" -> Rewrite(operands, 2, line, m, "bge", <<operands[1], x0, operands[2]>>)
       [] m = "bltz" -> Rewrite(operands, 2, line, m, "blt", <<operands[1], x0, operands[2]>>)
       [] m = "bgtz" -> Rewrite(operands, 2, line, m, "blt", <<x0, operands[1], operands[2]>>)
       [] m = "j" -> Rewrite(operands, 1, line, m, "jal", <<x0, operands[1]>>)
       [] m = "jr" -> Rewrite(operands, 1, line, m, "jalr", <<x0, operands[1], Dec(0)>>)
       [] m = "ret" -> Rewrite(operands, 0, line, m, "jalr", <<x0, Name("x1"), Dec(0)>>)
       [] m = "jal" -> IF Len(operands) = 1
                       THEN Ok(<<Inst("jal", <<Name("x1"), operands[1]>>)>>)
                       ELSE NotPseudo
       [] m = "li" -> expandLi(operands, line)
       [] OTHER -> NotPseudo

expandPseudo(m, operands, line) ==
  LET x0 == Name("x0")
  IN CASE m = "nop" -> Rewrite(operands, 0, line, m, "addi", <<x0, x0, Dec(0)>>)
       [] m = "mv" -> Rewrite(operands, 2, line, m, "addi", <<operands[1], operands[2], Dec(0)>>)
       [] m = "not" -> Rewrite(operands, 2, line, m, "xori", <<operands[1], operands[2], Dec(-1)>>)
       [] m = "neg" -> Rewrite(operands, 2, line, m, "sub", <<operands[1], x0, operands[2]>>)
       [] m = "negw" -> Rewrite(operands, 2, line, m, "subw", <<operands[1], x0, operands[2]>>)
       [] m = "sext.w" -> Rewrite(operands, 2, line, m, "addiw", <<operands[1], operands[2], Dec(0)>>)
       [] m = "seqz" -> Rewrite(operands, 2, line, m, "sltiu", <<operands[1], operands[2], Dec(1)>>)
       [] m = "snez" -> Rewrite(operands, 2, line, m, "sltu", <<operands[1], x0, operands[2]>>)
       [] m = "sltz" -> Rewrite(operands, 2, line, m, "slt", <<operands[1], operands[2], x0>>)
       [] m = "sgtz" -> Rewrite(operands, 2, line, m, "slt", <<operands[1], x0, operands[2]>>)
       [] m = "beqz" -> Rewrite(operands, 2, line, m, "beq", <<operands[1], x0, operands[2]>>)
       [] m = "bnez" -> Rewrite(operands, 2, line, m, "bne", <<operands[1], x0, operands[2]>>)
       [] m = "blez" -> Rewrite(operands, 2, line, m, "bge", <<x0, operands[1], operands[2]>>)
       [] m = "bgez" -> Rewrite(operands, 2, line, m, "bge", <<operands[1], x0, operands[2]>>)
       [] m = "bltz" -> Rewrite(operands, 2, line, m, "blt", <<operands[1], x0, operands[2]>>)
       [] m = "bgtz" -> Rewrite(operands, 2, line, m, "blt", <<x0, operands[1], operands[2]>>)
       [] m = "j" -> Rewrite(operands, 1, line, m, "jal", <<x0, operands[1]>>)
       [] m = "jr" -> Rewrite(operands, 1, line, m, "jalr", <<x0, operands[1], Dec(0)>>)
       [] m = "ret" -> Rewrite(operands, 0, line, m, "jalr", <<x0, Name("x1"), Dec(0)>>)
       [] m = "jal" -> IF Len(operands) = 1
                       THEN Ok(<<Inst("jal", <<Name("x1"), operands[1]>>)>>)
                       ELSE NotPseudo
       [] m = "li" -> expandLi(operands, line)
       [] OTHER -> NotPseudo

(***************************************************************************)
(* class Assembler                                                         *)
(***************************************************************************)
\* an accumulator that follows the latest row instead of the widest
ensureSupportedXlen_Latest(spec, line, mode, detectedXlen) ==
  IF mode = Auto
  THEN Ok(Required(spec))
  ELSE IF Required(spec) > mode
  THEN Throw(AnalyzerError("Instruction requires XLEN", line))
  ELSE Ok(detectedXlen)

\* ensureSupportedXlen: the new value of this.detectedXlen, or the
\* XLEN-mismatch error
ensureSupportedXlen(spec, line, mode, detectedXlen) ==
  IF mode = Auto
  THEN Ok(IF Required(spec) > detectedXlen THEN Required(spec) ELSE detectedXlen)
  ELSE IF Required(spec) > mode
  THEN Throw(AnalyzerError("Instruction requires XLEN", line))
  ELSE Ok(detectedXlen)

\* the switch of assembleSingle on spec.operandPattern
packOperands(spec, operands, line, isEmbedded) ==
  LET p == spec.operandPattern
  IN CASE p = "rd_rs1_rs2" -> assembleRType(spec, operands, line, isEmbedded)
       [] p = "rd_rs1" -> IF spec.format = "I"
                          THEN assembleIType(spec, operands, line, isEmbedded)
                          ELSE assembleRType(spec, operands, line, isEmbedded)
       [] p = "rd_rs1_imm12" -> assembleIType(spec, operands, line, isEmbedded)
       [] p = "rd_mem" -> assembleLoad(spec, operands, line, isEmbedded)
       [] p = "rs2_mem" -> assembleStore(spec, operands, line, isEmbedded)
       [] p = "rs1_rs2_branch" -> assembleBranch(spec, operands, line, isEmbedded)
       [] p = "rd_imm20" -> assembleUType(spec, operands, line, isEmbedded)
       [] p = "rd_jump" -> assembleJump(spec, operands, line, isEmbedded)
       [] p = "none" -> assembleZeroOperand(spec, operands, line)
       [] p = "fence" -> assembleFence(spec, operands, line)
       [] p = "rd_csr_rs1" -> assembleCsrRegister(spec, operands, line, isEmbedded)
       [] p = "rd_csr_imm5" -> assembleCsrImmediate(spec, operands, line, isEmbedded)
       [] p = "rd_rs1_imm6" -> assembleIType(spec, operands, line, isEmbedded)
       [] p \in {"fd_fs1_fs2", "fd_fs1", "fd_rs1", "rd_fs1", "rd_fs1_fs2"} ->
            assembleFloatRType(spec, operands, line)
       [] p = "fd_fs1_fs2_fs3" -> assembleFloatR4Type(spec, operands, line)
       [] p \in {"vd_vs1_vs2", "vd_vs1_vs2_vm", "vd_vs1_rs2", "vd_vs1_rs2_vm",
                 "vd_vs1_imm", "vd_vs1_imm_vm", "vd_rs1", "vd_rs1_vm",
                 "vd_vs1", "vd_vs1_vm"} -> assembleVType(spec, operands, line)
       [] p = "vd_mem" -> assembleVLoad(spec, operands, line)
       [] p = "vs_mem" -> assembleVStore(spec, operands, line)
       [] OTHER -> Throw(AnalyzerError("Unhandled operand pattern", line))

\* the outcome of one instruction: ok / the words / the error, the value of
\* this.detectedXlen afterwards, and the specs that passed the XLEN step
Outcome(ok, v, err, detectedXlen, resolved) ==
  [ok |-> ok, v |-> v, err |-> err, detectedXlen |-> detectedXlen, resolved |-> resolved]

assembleSingle(spec, operands, line, isEmbedded, mode, detectedXlen) ==
  LET xlen == ensureSupportedXlen(spec, line, mode, detectedXlen)
  IN IF ~xlen.ok
     THEN Outcome(FALSE, << >>, xlen.err, detectedXlen, << >>)
     ELSE With(packOperands(spec, operands, line, isEmbedded),
               LAMBDA word : Outcome(word.ok, IF word.ok THEN <<word.v>> ELSE << >>,
                                     word.err, xlen.v, <<spec.name>>))

\* the for-loop of assembleInstructionOrPseudo over the expansion
RECURSIVE assembleExpanded(_, _, _, _, _, _)
assembleExpanded(expanded, mnemonic, line, isEmbedded, mode, acc) ==
  IF expanded = << >> THEN acc
  ELSE LET inst == Head(expanded)
       IN IF inst.mnemonic \notin DOMAIN byName
          THEN Outcome(FALSE, << >>, AnalyzerError("Internal error expanding pseudo", line),
                       acc.detectedXlen, acc.resolved)
          ELSE With(assembleSingle(SpecByName(inst.mnemonic), inst.operands,
                                   line, isEmbedded, mode, acc.detectedXlen),
                    LAMBDA one :
                      IF ~one.ok
                      THEN Outcome(FALSE, << >>, one.err, one.detectedXlen,
                                   acc.resolved \o one.resolved)
                      ELSE assembleExpanded(Tail(expanded), mnemonic, line, isEmbedded, mode,
                                            Outcome(TRUE, acc.v \o one.v, NoError,
                                                    one.detectedXlen,
                                                    acc.resolved \o one.resolved)))

assembleInstructionOrPseudo(mnemonic, operands, line, isEmbedded, mode, detectedXlen) ==
  IF mnemonic \in DOMAIN byName
  THEN assembleSingle(SpecByName(mnemonic), operands, line, isEmbedded,
                      mode, detectedXlen)
  ELSE With(expandPseudo(mnemonic, operands, line),
            LAMBDA expanded :
              IF ~expanded.ok
              THEN Outcome(FALSE, << >>, expanded.err, detectedXlen, << >>)
              ELSE IF expanded.v = << >>
              THEN Outcome(FALSE, << >>, AnalyzerError("Unsupported instruction", line),
                           detectedXlen, << >>)
              ELSE assembleExpanded(expanded.v, mnemonic, line, isEmbedded, mode,
                                    Outcome(TRUE, << >>, NoError, detectedXlen, << >>)))
(***************************************************************************)
(* Disassembler: matching and the unpacking routines                       *)
(***************************************************************************)
\* formatNumber(value, numberBase) of utils.ts is not part of the available
\* sources: the text is represented by the value and the base it is written in
formatNumber(value, numberBase) == [t |-> numberBase, s |-> "", v |-> value]

\* `${offset}(${base})`
formatMem(offset, base, numberBase) == [t |-> "mem", s |-> base.s, v |-> offset]

matchesSpec(spec, word) ==
  LET funct3 == Field(word, 12, 3)
      funct7 == Field(word, 25, 7)
      bits == Dflt(spec.immBits, 12)
  IN IF spec.funct3 # None /\ spec.funct3 # funct3 THEN FALSE
     ELSE IF spec.format = "R" /\ spec.funct7 # None /\ spec.funct7 # funct7 THEN FALSE
     ELSE IF spec.format = "I" /\ spec.funct7 # None
             /\ spec.immBits # None /\ spec.immBits # 0 /\ spec.immBits < 12
     THEN spec.funct7 = funct7
     ELSE IF spec.fixedImmediate # None
     THEN ToBits(Field(word, 20, 12), bits) = ToBits(spec.fixedImmediate, bits)
     ELSE TRUE

matchesCompressedSpec(spec, word) ==
  CASE spec.format = "CR" -> spec.funct4 = Field(word, 12, 4)
    [] spec.format \in {"CI", "CSS", "CIW", "CL", "CS", "CJ"} ->
         spec.funct3 = Field(word, 13, 3)
    [] spec.format = "CA" ->
         spec.funct6 = Field(word, 10, 6) /\ spec.funct2 = Field(word, 5, 2)
    [] spec.format = "CB" ->
         spec.funct3 = Field(word, 13, 3) /\ spec.funct2 = Field(word, 10, 2)
    [] OTHER -> FALSE

\* a slice of the word moved to position `to` of an immediate
Slice(word, from, n, to) == Shl(ToBits(Field(word, from, n), n), to)

decodeRType(spec, word) ==
  LET rd == Field(word, 7, 5)
      rs1 == Field(word, 15, 5)
      rs2 == Field(word, 20, 5)
  IN IF spec.operandPattern = "rd_rs1"
     THEN Inst(spec.name, <<formatRegister(rd), formatRegister(rs1)>>)
     ELSE Inst(spec.name, <<formatRegister(rd), formatRegister(rs1), formatRegister(rs2)>>)

decodeFloatRType(spec, word) ==
  LET fd == Field(word, 7, 5)
      fs1 == Field(word, 15, 5)
      fs2 == Field(word, 20, 5)
      p == spec.operandPattern
  IN CASE p = "fd_fs1_fs2" ->
            Inst(spec.name, <<formatFloatRegister(fd), formatFloatRegister(fs1),
                              formatFloatRegister(fs2)>>)
       [] p = "fd_fs1" ->
            Inst(spec.name, <<formatFloatRegister(fd), formatFloatRegister(fs1)>>)
       [] p = "fd_rs1" ->
            Inst(spec.name, <<formatFloatRegister(fd), formatRegister(fs1)>>)
       [] p = "rd_fs1" ->
            Inst(spec.name, <<formatRegister(fd), formatFloatRegister(fs1)>>)
       [] p = "rd_fs1_fs2" ->
            Inst(spec.name, <<formatRegister(fd), formatFloatRegister(fs1),
                              formatFloatRegister(fs2)>>)
       [] OTHER -> Inst(spec.name, <<Name("<unsupported float operands>")>>)

decodeFloatR4Type(spec, word) ==
  Inst(spec.name, <<formatFloatRegister(Field(word, 7, 5)),
                    formatFloatRegister(Field(word, 15, 5)),
                    formatFloatRegister(Field(word, 20, 5)),
                    formatFloatRegister(Field(word, 27, 5))>>)

decodeFloatIType(spec, word, numberBase) ==
  LET fd == Field(word, 7, 5)
      rs1 == Field(word, 15, 5)
      imm == signExtend(Slice(word, 20, 12, 0), 12)
  IN Inst(spec.name, <<formatFloatRegister(fd), formatMem(imm, formatRegister(rs1), numberBase)>>)

decodeFloatSType(spec, word, numberBase) ==
  LET fs2 == Field(word, 20, 5)
      rs1 == Field(word, 15, 5)
      imm == signExtend(Slice(word, 25, 7, 5) \cup Slice(word, 7, 5, 0), 12)
  IN Inst(spec.name, <<formatFloatRegister(fs2), formatMem(imm, formatRegister(rs1), numberBase)>>)

decodeIType(spec, word, numberBase) ==
  LET rd == Field(word, 7, 5)
      rs1 == Field(word, 15, 5)
      immRaw == Slice(word, 20, 12, 0)
      imm == IF spec.immBits # None /\ spec.immBits < 12
             THEN BitSum(immRaw \cap (0..(spec.immBits - 1)))
             ELSE IF spec.unsignedImmediate THEN BitSum(immRaw)
             ELSE signExtend(immRaw, Dflt(spec.immBits, 12))
  IN IF spec.fixedImmediate # None
     THEN Inst(spec.name, <<formatRegister(rd), formatRegister(rs1)>>)
     ELSE Inst(spec.name, <<formatRegister(rd), formatRegister(rs1),
                            formatNumber(imm, numberBase)>>)

decodeLoad(spec, word, numberBase) ==
  LET rd == Field(word, 7, 5)
      rs1 == Field(word, 15, 5)
      offset == signExtend(Slice(word, 20, 12, 0), 12)
      rdStr == IF spec.format = "FI" THEN formatFloatRegister(rd) ELSE formatRegister(rd)
  IN Inst(spec.name, <<rdStr, formatMem(offset, formatRegister(rs1), numberBase)>>)

decodeStore(spec, word, numberBase) ==
  LET rs2 == Field(word, 20, 5)
      rs1 == Field(word, 15, 5)
      immRaw == Shl(Sar(word, 25), 5) \cup Slice(word, 7, 5, 0)
      offset == signExtend(immRaw, 12)
      rs2Str == IF spec.format = "FS" THEN formatFloatRegister(rs2) ELSE formatRegister(rs2)
  IN Inst(spec.name, <<rs2Str, formatMem(offset, formatRegister(rs1), numberBase)>>)

decodeBranch(spec, word, numberBase) ==
  LET rs1 == Field(word, 15, 5)
      rs2 == Field(word, 20, 5)
      imm == signExtend(BitOr({Slice(word, 31, 1, 12), Slice(word, 7, 1, 11),
                               Slice(word, 25, 6, 5), Slice(word, 8, 4, 1)}), 13)
  IN Inst(spec.name, <<formatRegister(rs1), formatRegister(rs2),
                       formatNumber(imm, numberBase)>>)

decodeUType(spec, word, numberBase) ==
  LET rd == Field(word, 7, 5)
      imm == signExtend(Sar(word, 12), Dflt(spec.immBits, 20))
  IN Inst(spec.name, <<formatRegister(rd), formatNumber(imm, numberBase)>>)

decodeJump(spec, word, numberBase) ==
  LET rd == Field(word, 7, 5)
      imm == signExtend(BitOr({Slice(word, 31, 1, 20), Slice(word, 12, 8, 12),
                               Slice(word, 20, 1, 11), Slice(word, 21, 10, 1)}),
                        Dflt(spec.immBits, 21))
  IN Inst(spec.name, <<formatRegister(rd), formatNumber(imm, numberBase)>>)

decodeZeroOperand(spec) == Inst(spec.name, << >>)

formatFenceMask(mask) == IF mask = 0 THEN Dec(0) ELSE Name(fenceName[mask])

decodeFence(spec, word) ==
  LET pred == Field(word, 20, 4)
      succ == Field(word, 24, 4)
      fm == Field(word, 28, 3)
  IN IF pred = 15 /\ succ = 15
        /\ fm = ToInt32(Sar(Int32Bits(Dflt(spec.fixedImmediate, 0)), 8))
     THEN Inst(spec.name, << >>)
     ELSE Inst(spec.name, <<formatFenceMask(pred), formatFenceMask(succ)>>)

decodeCsrRegister(spec, word, numberBase) ==
  Inst(spec.name, <<formatRegister(Field(word, 7, 5)),
                    formatNumber(Field(word, 20, 12), numberBase),
                    formatRegister(Field(word, 15, 5))>>)

decodeCsrImmediate(spec, word, numberBase) ==
  Inst(spec.name, <<formatRegister(Field(word, 7, 5)),
                    formatNumber(Field(word, 20, 12), numberBase),
                    formatNumber(Field(word, 15, 5), numberBase)>>)

decodeVType(spec, word, numberBase) ==
  LET vd == Field(word, 7, 5)
      vs1 == Field(word, 15, 5)
      vs2 == Field(word, 20, 5)
      vm == Field(word, 25, 1)
      p == spec.operandPattern
      operands ==
        CASE p \in {"vd_vs1_vs2", "vd_vs1_vs2_vm"} ->
               <<formatVectorRegister(vd), formatVectorRegister(vs1), formatVectorRegister(vs2)>>
          [] p \in {"vd_vs1_rs2", "vd_vs1_rs2_vm"} ->
               <<formatVectorRegister(vd), formatVectorRegister(vs1), formatRegister(vs2)>>
          [] p \in {"vd_vs1_imm", "vd_vs1_imm_vm"} ->
               \* vs1 >> 5 is 0 for a 5-bit field: the register printed is v0
               <<formatVectorRegister(vd),
                 formatVectorRegister(IF vs1 \div 32 # 0 THEN vs1 ELSE 0),
                 formatNumber(signExtend(ToBits(vs1, 5), 5), numberBase)>>
          [] p \in {"vd_rs1", "vd_rs1_vm"} ->
               <<formatVectorRegister(vd), formatRegister(vs1)>>
          [] p \in {"vd_vs1", "vd_vs1_vm"} ->
               <<formatVectorRegister(vd), formatVectorRegister(vs1)>>
          [] OTHER -> << >>
      masked == p \in {"vd_vs1_vs2_vm", "vd_vs1_rs2_vm", "vd_vs1_imm_vm",
                       "vd_rs1_vm", "vd_vs1_vm"} /\ vm = 0
  IN Inst(spec.name, operands \o (IF masked THEN <<Name("v0.t")>> ELSE << >>))

decodeVLoad(spec, word, numberBase) ==
  LET vd == Field(word, 7, 5)
      rs1 == Field(word, 15, 5)
      imm == signExtend(Slice(word, 20, 12, 0), 12)
  IN Inst(spec.name, <<formatVectorRegister(vd), formatMem(imm, formatRegister(rs1), numberBase)>>)

decodeVStore(spec, word, numberBase) ==
  LET vs3 == Field(word, 7, 5)
      rs1 == Field(word, 15, 5)
      vs2 == Field(word, 20, 5)
      imm == signExtend(Slice(word, 25, 7, 5) \cup ToBits(vs3, 5), 12)
  IN Inst(spec.name, <<formatVectorRegister(vs2), formatMem(imm, formatRegister(rs1), numberBase)>>)

\* --- 16-bit forms ---
decodeCRType(spec, word) ==
  LET rd == Field(word, 7, 5)
      rs2 == Field(word, 2, 5)
  IN IF spec.operandPattern = "rd_rs2"
     THEN Inst(spec.name, <<formatRegister(rd), formatRegister(rs2)>>)
     ELSE IF spec.operandPattern = "rs1"
     THEN Inst(spec.name, <<formatRegister(rd)>>)
     ELSE Inst(spec.name, << >>)

decodeCIType(spec, word, numberBase) ==
  LET rd == Field(word, 7, 5)
      imm == signExtend(Slice(word, 2, 5, 0) \cup Slice(word, 12, 1, 5), 6)
  IN IF spec.operandPattern = "rd_rs1_nzimm6"
     THEN Inst(spec.name, <<formatRegister(rd), formatRegister(rd), formatNumber(imm, numberBase)>>)
     ELSE IF spec.operandPattern = "rd_nzimm6"
     THEN Inst(spec.name, <<formatRegister(rd), formatNumber(imm, numberBase)>>)
     ELSE Inst(spec.name, << >>)

decodeCSSType(spec, word, numberBase) ==
  LET rs2 == Field(word, 2, 5)
      imm == BitSum(Slice(word, 7, 2, 0) \cup Slice(word, 10, 4, 2))
  IN Inst(spec.name, <<formatRegister(rs2), formatNumber(imm, numberBase)>>)

decodeCIWType(spec, word, numberBase) ==
  LET rd == Field(word, 2, 3) + 8
      imm == BitSum(BitOr({Slice(word, 5, 1, 0), Slice(word, 6, 2, 1),
                           Slice(word, 10, 2, 3), Slice(word, 12, 1, 5)}))
  IN Inst(spec.name, <<formatRegister(rd), formatNumber(imm, numberBase)>>)

decodeCLType(spec, word, numberBase) ==
  LET rd == Field(word, 2, 3) + 8
      rs1 == Field(word, 7, 3) + 8
      imm == BitSum(Slice(word, 5, 1, 0) \cup Slice(word, 10, 3, 1))
  IN Inst(spec.name, <<formatRegister(rd), formatMem(imm, formatRegister(rs1), numberBase)>>)

decodeCSType(spec, word, numberBase) ==
  LET rs2 == Field(word, 2, 3) + 8
      rs1 == Field(word, 7, 3) + 8
      imm == BitSum(Slice(word, 5, 1, 0) \cup Slice(word, 10, 3, 1))
  IN Inst(spec.name, <<formatRegister(rs2), formatMem(imm, formatRegister(rs1), numberBase)>>)

decodeCAType(spec, word) ==
  Inst(spec.name, <<formatRegister(Field(word, 2, 3) + 8),
                    formatRegister(Field(word, 5, 3) + 8)>>)

decodeCBType(spec, word, numberBase) ==
  LET rs1 == Field(word, 2, 3) + 8
      imm == signExtend(BitOr({Slice(word, 3, 1, 0), Slice(word, 5, 2, 1),
                               Slice(word, 10, 2, 3), Slice(word, 12, 1, 5)}), 6)
  IN IF spec.operandPattern = "rd_rs1_nzimm5"
     THEN Inst(spec.name, <<formatRegister(rs1), formatRegister(rs1), formatNumber(imm, numberBase)>>)
     ELSE IF spec.operandPattern = "rs1_nzimm5"
     THEN Inst(spec.name, <<formatRegister(rs1), formatNumber(imm, numberBase)>>)
     ELSE Inst(spec.name, << >>)

decodeCJType(spec, word, numberBase) ==
  LET imm == signExtend(BitOr({Slice(word, 2, 1, 0), Slice(word, 3, 3, 1),
                               Slice(word, 6, 2, 4), Slice(word, 8, 1, 6),
                               Slice(word, 9, 2, 7), Slice(word, 11, 1, 9),
                               Slice(word, 12, 1, 10)}), 11)
  IN Inst(spec.name, <<formatNumber(imm, numberBase)>>)

(***************************************************************************)
(* class Disassembler                                                      *)
(***************************************************************************)
isInstructionAllowed(spec, mode) ==
  IF mode = Auto THEN TRUE ELSE Required(spec) <= mode

\* recordInstruction: the new value of this.detectedXlen
recordInstruction(spec, mode, detectedXlen) ==
  IF mode # Auto THEN detectedXlen
  ELSE IF Required(spec) > detectedXlen THEN Required(spec) ELSE detectedXlen

\* candidates.filter(isInstructionAllowed).sort(by descending minXlen): the
\* sort is stable, rows of equal minXlen keep the table order
filterAndSort(candidates, mode) ==
  LET allowed == SelectSeq(candidates, LAMBDA c : isInstructionAllowed(c, mode))
  IN SelectSeq(allowed, LAMBDA c : Required(c) = 128)
     \o SelectSeq(allowed, LAMBDA c : Required(c) = 64)
     \o SelectSeq(allowed, LAMBDA c : Required(c) = 32)

\* a test of the lowest bit only
isCompressed_Bit0(word) == 0 \notin word

\* (word & 0x3) !== 0x3
isCompressed(word) == ~({0, 1} \subseteq word)

\* the outcome of one machine word: ok / the text line / the error, the value
\* of this.detectedXlen afterwards, the spec recorded, and the decode path
Decoded(ok, v, err, detectedXlen, resolved, path) ==
  [ok |-> ok, v |-> v, err |-> err, detectedXlen |-> detectedXlen,
   resolved |-> resolved, path |-> path]

NoText == Inst("", << >>)

\* the switch of disassembleCompressedWord on spec.operandPattern
compressedOperands(spec, word, line, numberBase) ==
  LET p == spec.operandPattern
  IN CASE p = "rd_rs2" -> Ok(decodeCRType(spec, word))
       [] p \in {"rd_rs1_nzimm6", "rd_nzimm6"} -> Ok(decodeCIType(spec, word, numberBase))
       [] p = "rs2_nzimm6" -> Ok(decodeCSSType(spec, word, numberBase))
       [] p = "rd_nzuimm6" -> Ok(decodeCIWType(spec, word, numberBase))
       [] p = "rd_rs1_nzuimm6" -> Ok(decodeCLType(spec, word, numberBase))
       [] p = "rs2_rs1_nzuimm6" -> Ok(decodeCSType(spec, word, numberBase))
       [] p = "rd_rs1_rs2" -> Ok(decodeCAType(spec, word))
       [] p \in {"rd_rs1_nzimm5", "rs1_nzimm5"} -> Ok(decodeCBType(spec, word, numberBase))
       [] p = "rd_nzimm11" -> Ok(decodeCJType(spec, word, numberBase))
       [] p = "rs1" -> Ok(decodeCRType(spec, word))
       [] p = "none" -> Ok(decodeZeroOperand(spec))
       [] OTHER -> Throw(AnalyzerError("Unhandled compressed operand pattern", line))

\* recordInstruction(spec), then the text of the switch or its error
Recorded(spec, text, mode, detectedXlen, path) ==
  Decoded(text.ok, IF text.ok THEN text.v ELSE NoText, text.err,
          recordInstruction(spec, mode, detectedXlen), <<spec.name>>, path)

\* candidates.find: the first of the candidates that match (hits are their
\* indexes), None when there is none
Find(hits) == IF hits = {} THEN None ELSE CHOOSE k \in hits : \A j \in hits : k <= j

disassembleCompressedWord(word, line, mode, detectedXlen, numberBase) ==
  LET fullOpcode == Field(word, 0, 2) + 4 * Field(word, 13, 3)
      Fail(kind) == Decoded(FALSE, NoText, AnalyzerError(kind, line), detectedXlen,
                            << >>, "compressed")
  IN IF fullOpcode \notin DOMAIN byOpcode
     THEN Fail("Unknown compressed opcode")
     ELSE With(filterAndSort(Candidates(fullOpcode), mode),
               LAMBDA filtered :
                 With(Find({k \in 1..Len(filtered) : matchesCompressedSpec(filtered[k], word)}),
                      LAMBDA hit :
                        IF hit = None
                        THEN Fail("Unsupported compressed instruction encoding")
                        ELSE Recorded(filtered[hit],
                                      compressedOperands(filtered[hit], word, line, numberBase),
                                      mode, detectedXlen, "compressed")))

\* the switch of disassembleWord on spec.operandPattern
standardOperands(spec, word, line, numberBase) ==
  LET p == spec.operandPattern
  IN CASE p = "rd_rs1_rs2" -> Ok(decodeRType(spec, word))
       [] p = "rd_rs1" -> IF spec.format = "I"
                          THEN Ok(decodeIType(spec, word, numberBase))
                          ELSE Ok(decodeRType(spec, word))
       [] p = "rd_rs1_imm12" -> Ok(decodeIType(spec, word, numberBase))
       [] p = "rd_mem" -> Ok(decodeLoad(spec, word, numberBase))
       [] p = "rs2_mem" -> Ok(decodeStore(spec, word, numberBase))
       [] p = "rs1_rs2_branch" -> Ok(decodeBranch(spec, word, numberBase))
       [] p = "rd_imm20" -> Ok(decodeUType(spec, word, numberBase))
       [] p = "rd_jump" -> Ok(decodeJump(spec, word, numberBase))
       [] p = "none" -> Ok(decodeZeroOperand(spec))
       [] p = "fence" -> Ok(decodeFence(spec, word))
       [] p = "rd_csr_rs1" -> Ok(decodeCsrRegister(spec, word, numberBase))
       [] p = "rd_csr_imm5" -> Ok(decodeCsrImmediate(spec, word, numberBase))
       [] p = "rd_rs1_imm6" -> Ok(decodeIType(spec, word, numberBase))
       \* the first 'fd_rs1' label of the switch is the one taken
       [] p = "fd_rs1" -> Ok(decodeFloatIType(spec, word, numberBase))
       [] p = "fs2_fs1_rs1" -> Ok(decodeFloatSType(spec, word, numberBase))
       [] p \in {"fd_fs1_fs2", "fd_fs1", "rd_fs1", "rd_fs1_fs2"} ->
            Ok(decodeFloatRType(spec, word))
       [] p = "fd_fs1_fs2_fs3" -> Ok(decodeFloatR4Type(spec, word))
       [] p \in {"vd_vs1_vs2", "vd_vs1_vs2_vm", "vd_vs1_rs2", "vd_vs1_rs2_vm",
                 "vd_vs1_imm", "vd_vs1_imm_vm", "vd_rs1", "vd_rs1_vm",
                 "vd_vs1", "vd_vs1_vm"} -> Ok(decodeVType(spec, word, numberBase))
       [] p = "vd_mem" -> Ok(decodeVLoad(spec, word, numberBase))
       [] p = "vs_mem" -> Ok(decodeVStore(spec, word, numberBase))
       [] OTHER -> Throw(AnalyzerError("Unhandled operand pattern", line))

\* a decoder with one error for every word it cannot decode
disassembleWord_OneKind(word, line, mode, detectedXlen, numberBase) ==
  IF isCompressed(word)
  THEN disassembleCompressedWord(word, line, mode, detectedXlen, numberBase)
  ELSE
  LET opcode == Field(word, 0, 7)
      Fail(kind) == Decoded(FALSE, NoText, AnalyzerError(kind, line), detectedXlen,
                            << >>, "standard")
  IN IF opcode \notin DOMAIN byOpcode
     THEN Fail("Unsupported instruction encoding")
     ELSE With(filterAndSort(Candidates(opcode), mode),
               LAMBDA filtered :
                 IF filtered = << >>
                 THEN (IF mode # Auto THEN Fail("Instruction requires XLEN")
                       ELSE Fail("Unsupported instruction encoding"))
                 ELSE With(Find({k \in 1..Len(filtered) : matchesSpec(filtered[k], word)}),
                           LAMBDA hit :
                             IF hit = None
                             THEN Fail("Unsupported instruction encoding")
                             ELSE Recorded(filtered[hit],
                                           standardOperands(filtered[hit], word, line,
                                                            numberBase),
                                           mode, detectedXlen, "standard")))

\* Disassembler.disassembleWord
disassembleWord(word, line, mode, detectedXlen, numberBase) ==
  IF isCompressed(word)
  THEN disassembleCompressedWord(word, line, mode, detectedXlen, numberBase)
  ELSE
  LET opcode == Field(word, 0, 7)
      Fail(kind) == Decoded(FALSE, NoText, AnalyzerError(kind, line), detectedXlen,
                            << >>, "standard")
  IN IF opcode \notin DOMAIN byOpcode
     THEN Fail("Unknown opcode")
     ELSE With(filterAndSort(Candidates(opcode), mode),
               LAMBDA filtered :
                 IF filtered = << >>
                 THEN (IF mode # Auto THEN Fail("Instruction requires XLEN")
                       ELSE Fail("Unsupported instruction encoding"))
                 ELSE With(Find({k \in 1..Len(filtered) : matchesSpec(filtered[k], word)}),
                           LAMBDA hit :
                             IF hit = None
                             THEN Fail("Unsupported instruction encoding")
                             ELSE Recorded(filtered[hit],
                                           standardOperands(filtered[hit], word, line,
                                                            numberBase),
                                           mode, detectedXlen, "standard")))

(***************************************************************************)
(* MachineCodeTokenizer                                                    *)
(***************************************************************************)
\* A machine-word token is [t, w]: t = "hex" / "dec" is a literal whose
\* value lies in 0..0xffffffff and has the bit pattern w; "neg" is a
\* negative decimal, "wide" a literal above 0xffffffff, "bad" a token no
\* literal syntax accepts.
parseMachineWord(token, line) ==
  IF token.t \in {"hex", "dec"} THEN Ok(token.w)
  ELSE Throw(AnalyzerError("Invalid machine word", line))

\* the tokens of source lines i.., each with its physical line number,
\* or the first parse error
RECURSIVE tokenizeFrom(_, _, _)
tokenizeFrom(lines, i, tokens) ==
  IF i > Len(lines) THEN Ok(tokens)
  ELSE LET parts == lines[i]
           values == [k \in 1..Len(parts) |-> parseMachineWord(parts[k], i)]
       IN Try(values,
              tokenizeFrom(lines, i + 1,
                           tokens \o [k \in 1..Len(parts) |->
                                        [value |-> values[k].v, line |-> i]]))

tokenize(source) == tokenizeFrom(source, 1, << >>)

(***************************************************************************)
(* Inputs                                                                  *)
(***************************************************************************)
\* longest program (source lines) of the multi-line input families
MaxLines == 2

\* most calls one process serves, one after the other
MaxCalls == 2

\* a source line of assembly: its tokens after the separators are removed,
\* and whether a comment follows them; a blank or comment-only line has no
\* tokens
Line(tokens, comment) == [tokens |-> tokens, comment |-> comment]

Asm(mnemonic, operands) == Line(<<Name(mnemonic)>> \o operands, FALSE)

BlankLine == Line(<< >>, TRUE)

\* the instance of an operand pattern: registers and immediate by variant
Variants == {"low", "high", "min", "max", "below", "above"}

\* the immediate field an operand pattern carries: width and signedness
ImmPatterns ==
  {"rd_rs1_imm12", "rd_rs1_imm6", "rd_mem", "rs2_mem", "rs1_rs2_branch",
   "rd_imm20", "rd_jump", "rd_csr_rs1", "rd_csr_imm5", "vd_vs1_imm",
   "vd_mem", "vs_mem"}

HasImmediate(spec) ==
  /\ spec.operandPattern \in ImmPatterns
  /\ ~(spec.operandPattern = "rd_rs1_imm12" /\ spec.fixedImmediate # None)

ImmWidth(spec) ==
  LET p == spec.operandPattern
  IN CASE p \in {"rd_rs1_imm12", "rd_rs1_imm6"} -> Dflt(spec.immBits, 12)
       [] p \in {"rd_mem", "rs2_mem", "vd_mem", "vs_mem", "rd_csr_rs1", "rd_csr_imm5"} -> 12
       [] p = "rs1_rs2_branch" -> Dflt(spec.immBits, 13)
       [] p = "rd_imm20" -> Dflt(spec.immBits, 20)
       [] p = "rd_jump" -> Dflt(spec.immBits, 21)
       [] p = "vd_vs1_imm" -> 5
       [] OTHER -> 12

ImmSigned(spec) ==
  LET p == spec.operandPattern
  IN CASE p \in {"rd_rs1_imm12", "rd_rs1_imm6"} -> ~spec.unsignedImmediate
       [] p \in {"rd_csr_rs1", "rd_csr_imm5"} -> FALSE
       [] OTHER -> TRUE

ImmMin(spec) == IF ImmSigned(spec) THEN 0 - Pow2(ImmWidth(spec) - 1) ELSE 0

ImmMax(spec) ==
  IF ImmSigned(spec) THEN Pow2(ImmWidth(spec) - 1) - 1 ELSE Pow2(ImmWidth(spec)) - 1

ImmOf(spec, variant) ==
  CASE variant = "low" -> 4
    [] variant = "high" -> IF ImmSigned(spec) THEN -2 ELSE 10
    [] variant = "min" -> ImmMin(spec)
    [] variant = "max" -> ImmMax(spec)
    [] variant = "below" -> ImmMin(spec) - 1
    [] variant = "above" -> ImmMax(spec) + 1

\* the k-th register number of a variant
RegOf(variant, k) == IF variant = "low" THEN k ELSE 16 - k

Operands(spec, variant) ==
  LET p == spec.operandPattern
      x(k) == Name(xName[RegOf(variant, k) + 1])
      f(k) == Name(fName[RegOf(variant, k) + 1])
      v(k) == Name(vName[RegOf(variant, k) + 1])
      imm == Dec(ImmOf(spec, variant))
      mem == Mem(ImmOf(spec, variant), xName[RegOf(variant, 2) + 1])
  IN CASE p = "rd_rs1_rs2" -> <<x(1), x(2), x(3)>>
       [] p = "rd_rs1" -> <<x(1), x(2)>>
       [] p \in {"rd_rs1_imm12", "rd_rs1_imm6", "rd_rs1_imm"} ->
            IF spec.fixedImmediate # None THEN <<x(1), x(2)>> ELSE <<x(1), x(2), imm>>
       [] p = "rd_mem" -> IF spec.format = "FI" THEN <<f(1), mem>> ELSE <<x(1), mem>>
       [] p = "rs2_mem" -> IF spec.format = "FS" THEN <<f(1), mem>> ELSE <<x(1), mem>>
       [] p = "rs1_rs2_branch" -> <<x(1), x(2), imm>>
       [] p \in {"rd_imm20", "rd_jump"} -> <<x(1), imm>>
       [] p = "none" -> << >>
       [] p = "fence" -> IF variant = "low" THEN << >> ELSE <<Name("rw"), Name("io")>>
       [] p = "rd_csr_rs1" -> <<x(1), imm, x(2)>>
       [] p = "rd_csr_imm5" -> <<x(1), imm, Dec(4)>>
       [] p = "fd_fs1_fs2" -> <<f(1), f(2), f(3)>>
       [] p = "fd_fs1" -> <<f(1), f(2)>>
       [] p = "fd_rs1" -> IF spec.format = "FI" THEN <<f(1), mem>> ELSE <<f(1), x(2)>>
       [] p = "rd_fs1" -> <<x(1), f(2)>>
       [] p = "rd_fs1_fs2" -> <<x(1), f(2), f(3)>>
       [] p = "fd_fs1_fs2_fs3" -> <<f(1), f(2), f(3), f(4)>>
       [] p = "fs2_fs1_rs1" -> <<f(1), mem>>
       [] p \in {"vd_vs1_vs2", "vd_vs1_vs2_vm"} -> <<v(1), v(2), v(3)>>
       [] p \in {"vd_vs1_rs2", "vd_vs1_rs2_vm"} -> <<v(1), v(2), x(3)>>
       [] p \in {"vd_vs1_imm", "vd_vs1_imm_vm"} -> <<v(1), v(2), imm>>
       [] p \in {"vd_rs1", "vd_rs1_vm"} -> <<v(1), x(2)>>
       [] p \in {"vd_vs1", "vd_vs1_vm"} -> <<v(1), v(2)>>
       [] p \in {"vd_mem", "vs_mem"} -> <<v(1), mem>>
       [] OTHER -> << >>

\* the rows of the table that come from the sources (the 32-bit forms)
StandardSpecs ==
  {instructionSet[k] : k \in {j \in 1..Len(instructionSet) :
                                 instructionSet[j].format \notin
                                   {"CR", "CI", "CSS", "CIW", "CL", "CS", "CA", "CB", "CJ"}}}

\* a variant is an in-range instance unless it steps outside the field
InRange(spec, variant) ==
  ~HasImmediate(spec) \/ variant \notin {"below", "above"}

\* the lines of the multi-line assembly programs
AsmLines ==
  << Asm("addi", <<Name("x1"), Name("x0"), Dec(1)>>),
     Asm("ld", <<Name("x8"), Mem(16, "x9")>>),
     BlankLine,
     Asm("addi", <<Name("wrong"), Name("x0"), Dec(1)>>),
     Asm("foo", <<Name("x1")>>),
     Asm("addi", <<Name("x1"), Name("x0"), Dec(2048)>>),
     Asm("mv", <<Name("x3"), Name("x20")>>),
     Asm("sq", <<Name("x1"), Mem(0, "x2")>>),
     Asm("fmadd.q", <<Name("f1"), Name("f2"), Name("f3"), Name("x4")>>),
     Asm("vadd.vv", <<Name("v1"), Name("v2"), Name("x3")>>) >>

\* the immediates of the li programs
LiImmediates == {0, 5, 2047, -2048, 2048, -2049, 4096, 100000, -100000, MaxInt32, MinInt32}

\* a machine-word token
Word(t, w) == [t |-> t, w |-> w]

\* the lines of the multi-line machine-code programs (0x00100093 addi,
\* 0x0104b403 ld, 0x0000007f no such opcode, 0x4085 c.li, 0x00012083 lw)
CodeLines ==
  << <<Word("hex", Int32Bits(1048723))>>,
     <<Word("hex", Int32Bits(17085443))>>,
     << >>,
     <<Word("bad", {})>>,
     <<Word("hex", Int32Bits(127))>>,
     <<Word("hex", Int32Bits(16517))>>,
     <<Word("dec", Int32Bits(1048723)), Word("hex", Int32Bits(73859))>>,
     <<Word("neg", {})>> >>

\* the upper bits combined with each of the 128 low-7-bit patterns
UpperBits == {{}, {14}, {15}, {12, 15}, {13, 15}, {12, 13, 25, 31}}

Sequences(lines, n) == UNION {[1..m -> {lines[k] : k \in 1..Len(lines)}] : m \in 0..n}


\* the pseudo-instructions with two register operands, with a register and
\* an offset, with one offset, with one register, and with no operand
RegisterPseudos == {"mv", "not", "neg", "seqz", "snez"}

BranchPseudos == {"beqz", "bnez", "blez", "bgez", "bltz", "bgtz"}

\* register operands: numeric and ABI names of both halves of the register
\* file, and a word that names no register
PseudoRegisters ==
  {Name("x0"), Name("x5"), Name("x16"), Name("a0"), Name("t6"), Name("wrong")}

\* offsets: aligned ones inside the 13-bit range, the ends of that range,
\* one beyond it (inside the 21-bit range), an odd one, a hex literal
PseudoOffsets == {Dec(0), Dec(8), Dec(-8), Dec(4094), Dec(-4096), Dec(4096), Dec(3), Hex(16)}

PseudoLines ==
  {Asm(m, <<rd, rs>>) : m \in RegisterPseudos, rd \in PseudoRegisters, rs \in PseudoRegisters}
  \cup {Asm(m, <<rs, off>>) : m \in BranchPseudos, rs \in PseudoRegisters, off \in PseudoOffsets}
  \cup {Asm(m, <<off>>) : m \in {"j", "jal"}, off \in PseudoOffsets}
  \cup {Asm("jr", <<rs>>) : rs \in PseudoRegisters}
  \cup {Asm("nop", << >>), Asm("ret", << >>)}

\* the positions of the integer-register operands of an instance: a register
\* named x.., or the base register of a memory operand
IntegerPositions(operands) ==
  {k \in 1..Len(operands) :
     \/ operands[k].t = "mem"
     \/ operands[k].t = "name" /\ \E n \in 1..32 : xName[n] = operands[k].s}

\* registers 16..31, by number and by ABI name
UpperRegisters == {"x16", "x31", "a7", "s2"}

\* the instances of a row with one integer register taken from the upper half
EmbeddedLines ==
  UNION {{Asm(spec.name, [Operands(spec, "low") EXCEPT ![k].s = r]) :
            k \in IntegerPositions(Operands(spec, "low")), r \in UpperRegisters} :
         spec \in StandardSpecs}

\* the branch instructions of the base table
Branches == {"beq", "bne", "blt", "bge", "bltu", "bgeu"}

\* offsets around zero and around the ends of the 13-bit and 21-bit ranges
OffsetValues ==
  {0, 2, -2, 1, -1, 3, 4094, 4095, 4096, 4097, -4095, -4096, -4097, -4098,
   1048574, 1048575, 1048576, 1048577, -1048575, -1048576, -1048577, -1048578}

OffsetLines ==
  {Asm(m, <<Name("x1"), Name("x2"), Dec(off)>>) : m \in Branches, off \in OffsetValues}
  \cup {Asm(m, <<Name("x5"), Dec(off)>>) : m \in BranchPseudos, off \in OffsetValues}
  \cup {Asm("jal", <<Name("x1"), Dec(off)>>) : off \in OffsetValues}
  \cup {Asm("j", <<Dec(off)>>) : off \in OffsetValues}

\* an instance with its last operand left out, and one with a surplus operand
Short(operands) == SubSeq(operands, 1, Len(operands) - 1)

Long(operands) == Append(operands, Name("x9"))

\* the lines with one operand too few or one too many, for every row (for
\* fence, whose instances have no operand or two: one and three operands)
CountLines ==
  UNION {{Asm(spec.name, Long(Operands(spec, variant))) : variant \in {"low", "high"}}
         \cup {Asm(spec.name, Short(Operands(spec, variant))) :
                 variant \in {v \in {"low", "high"} : Operands(spec, v) # << >>}} :
         spec \in StandardSpecs}

\* the offsets of the split-immediate lines: every store offset, every even
\* branch offset, and for jal the ends of the range, every single slice bit
\* and patterns that fill several slices
StoreOffsets == -2048..2047

BranchOffsets == {2 * n : n \in -2048..2047}

JumpOffsets ==
  {0, 1048574, -1048576, 699050, -699050, 349524, -349526, 4094, -4096, 2048, -2048}
  \cup {Pow2(k) : k \in 1..19}
  \cup {0 - Pow2(k) : k \in 1..20}
  \cup {Pow2(k) - 2 : k \in 2..20}
  \cup {Pow2(k) + Pow2(k - 1) : k \in 2..19}

SplitLines ==
  {Asm("sw", <<Name("x5"), Mem(off, "x6")>>) : off \in StoreOffsets}
  \cup {Asm("bne", <<Name("x5"), Name("x6"), Dec(off)>>) : off \in BranchOffsets}
  \cup {Asm("jal", <<Name("x5"), Dec(off)>>) : off \in JumpOffsets}

\* the texts of the second operand of a load or store: well-formed ones, and
\* ones with a parenthesis missing, misplaced or repeated
MemoryTexts ==
  {<<off, Paren("("), base, Paren(")")>> :
     off \in {Dec(4), Dec(-8), Dec(2047), Dec(-2048), Dec(2048), Dec(-2049), Hex(16),
              Name("abc")},
     base \in {Name("x2"), Name("sp"), Name("wrong"), Name("f1")}}
  \cup {<<Dec(4)>>,
         <<Name("x2")>>,
         <<Name("4x2"), Paren(")")>>,
         <<Paren("("), Name("x2"), Paren(")")>>,
         <<Dec(4), Paren("("), Name("x2")>>,
         <<Dec(4), Paren("("), Name("x2"), Paren(")"), Name("x")>>,
         <<Dec(4), Paren("("), Name("x2"), Paren(")"), Paren(")")>>,
         <<Dec(4), Paren("("), Paren("("), Name("x2"), Paren(")")>>,
         <<Dec(4), Paren(")"), Paren("("), Name("x2"), Paren(")")>>,
         <<Paren(")"), Dec(4), Paren("("), Name("x2"), Paren(")")>>,
         <<Dec(4), Paren("("), Paren(")")>>}

MemoryLines ==
  {Asm(m, <<Name("x5"), Text(text)>>) : m \in {"lw", "sw", "lbu", "sh"}, text \in MemoryTexts}

\* vadd.vi with every source register and every 5-bit immediate
VectorImmLines ==
  {Asm("vadd.vi", <<Name(vName[vd + 1]), Name(vName[vs + 1]), Dec(imm)>>) :
     vd \in {1, 31}, vs \in 0..31, imm \in -16..15}

\* the operand that names a fence set: 0 for the empty set, its letters
\* otherwise
FenceToken(mask) == IF mask = 0 THEN Dec(0) ELSE Name(fenceName[mask])

FenceLines ==
  {Asm("fence", <<FenceToken(pred), FenceToken(succ)>>) : pred \in 0..15, succ \in 0..15}
  \cup {Asm("fence", << >>)}

\* the rows with funct7 and a 5- or 6-bit shift amount, and amounts on both
\* sides of 0, 2^5 and 2^6
ShiftNames ==
  {"slli", "srli", "srai", "slliw", "srliw", "sraiw", "rori", "roriw", "bseti", "bclri",
   "binvi", "bexti"}

ShiftAmounts == -33..64

ShiftLines ==
  {Asm(m, <<Name("x5"), Name("x6"), Dec(shamt)>>) : m \in ShiftNames, shamt \in ShiftAmounts}
(***************************************************************************)
(* The calls assembleDetailed / disassembleDetailed as a state machine     *)
(***************************************************************************)
VARIABLES
  call,          \* the call in progress: operation, source and options
  pc,            \* "assemble", "tokenize", "decode", "returned" or "thrown"
  i,             \* the loop index: source line (assemble) or token (decode)
  tokens,        \* the tokenizer's result
  words,         \* the assembler's local array words
  lines,         \* the disassembler's local array lines
  detectedXlen,  \* this.detectedXlen
  resolved,      \* history: the specs that went through the XLEN step
  paths,         \* history: per decoded word, the decode path and the spec form
  result,        \* the value returned to the caller
  error,         \* the exception thrown to the caller
  earlier,       \* history: the widths the earlier calls of the process reported
  view           \* the view provider: where handleRun is, the messages it enqueued

vars == <<call, pc, i, tokens, words, lines, detectedXlen, resolved, paths, result, error,
          earlier, byName, byOpcode, view>>

NoResult ==
  [words |-> << >>, lines |-> << >>, output |-> << >>, detectedXlen |-> None,
   mode |-> None]

NoInstance == [name |-> "", variant |-> ""]

\* extension.ts, resolveFloatOptions: the float options of a float mode
\* (the mode 'auto', which derives them from the input text, is left out)
FloatModes == {"disabled", "rvf", "rvd", "rvq"}

resolveFloatOptions(floatMode) ==
  CASE floatMode = "disabled" ->
         [floatEnabled |-> FALSE, doubleEnabled |-> FALSE, quadEnabled |-> FALSE]
    [] floatMode = "rvf" ->
         [floatEnabled |-> TRUE, doubleEnabled |-> FALSE, quadEnabled |-> FALSE]
    [] floatMode = "rvd" ->
         [floatEnabled |-> TRUE, doubleEnabled |-> TRUE, quadEnabled |-> FALSE]
    [] floatMode = "rvq" ->
         [floatEnabled |-> TRUE, doubleEnabled |-> TRUE, quadEnabled |-> TRUE]
    [] OTHER ->
         [floatEnabled |-> FALSE, doubleEnabled |-> FALSE, quadEnabled |-> FALSE]

\* options?.xlen ?? 'auto', options?.isEmbedded ?? false,
\* options?.numberBase ?? 'hex'; origin is the assembly source whose output
\* this call disassembles (empty when the call is a first call)
Call(op, family, asm, code, xlen, isEmbedded, numberBase, instance) ==
  [op |-> op, family |-> family, asm |-> asm, code |-> code, xlen |-> xlen,
   isEmbedded |-> isEmbedded, numberBase |-> numberBase, instance |-> instance,
   fed |-> FALSE, asmXlen |-> xlen, float |-> resolveFloatOptions("rvq")]

InstanceCalls ==
  {Call("assemble", "instance", <<Asm(spec.name, Operands(spec, variant))>>, << >>,
        xlen, FALSE, "hex", [name |-> spec.name, variant |-> variant]) :
     spec \in StandardSpecs, variant \in Variants, xlen \in {Auto, 32, 64}}

LiCalls ==
  {Call("assemble", "li", <<Asm("li", <<Name("x5"), Dec(imm)>>)>>, << >>,
        xlen, FALSE, "hex", NoInstance) :
     imm \in LiImmediates, xlen \in {Auto, 32}}

ProgramCalls ==
  {Call("assemble", "program", source, << >>, xlen, isEmbedded, numberBase, NoInstance) :
     source \in Sequences(AsmLines, MaxLines), xlen \in XLenModes,
     isEmbedded \in BOOLEAN, numberBase \in {"hex", "dec"}}

CodeCalls ==
  {Call("disassemble", "code", << >>, source, xlen, FALSE, numberBase, NoInstance) :
     source \in Sequences(CodeLines, MaxLines), xlen \in XLenModes,
     numberBase \in {"hex", "dec"}}

OpcodeCalls ==
  {Call("disassemble", "opcode", << >>, <<<<Word("hex", ToBits(low, 7) \cup upper)>>>>,
        xlen, FALSE, "hex", NoInstance) :
     low \in 0..127, upper \in UpperBits, xlen \in {Auto, 32}}

PseudoCalls ==
  {Call("assemble", "pseudo", <<line>>, << >>, xlen, isEmbedded, "hex", NoInstance) :
     line \in PseudoLines, xlen \in {Auto, 32}, isEmbedded \in BOOLEAN}

\* the rows of the F, D and Q tables
FloatSpecs ==
  {rvfInstructions[k] @@ Undefined : k \in 1..Len(rvfInstructions)}
  \cup {rvdInstructions[k] @@ Undefined : k \in 1..Len(rvdInstructions)}
  \cup {rvqInstructions[k] @@ Undefined : k \in 1..Len(rvqInstructions)}

\* runAnalyzer: the options built from the float mode, then assembleDetailed
FloatCalls ==
  {[Call("assemble", "float", <<Asm(spec.name, Operands(spec, "low"))>>, << >>,
         xlen, FALSE, "hex", [name |-> spec.name, variant |-> "low"])
      EXCEPT !.float = resolveFloatOptions(floatMode)] :
     spec \in FloatSpecs, xlen \in {Auto, 64}, floatMode \in FloatModes}

EmbeddedCalls ==
  {Call("assemble", "embedded", <<line>>, << >>, Auto, TRUE, "hex",
        [name |-> Head(line.tokens).s, variant |-> "upper"]) :
     line \in EmbeddedLines}

OffsetCalls ==
  {Call("assemble", "offset", <<line>>, << >>, xlen, FALSE, "hex", NoInstance) :
     line \in OffsetLines, xlen \in {Auto, 32}}

CountCalls ==
  {Call("assemble", "count", <<line>>, << >>, Auto, FALSE, "hex",
        [name |-> Head(line.tokens).s, variant |-> "count"]) :
     line \in CountLines}

SplitCalls ==
  {Call("assemble", "split", <<line>>, << >>, Auto, FALSE, "hex", NoInstance) :
     line \in SplitLines}

MemoryCalls ==
  {Call("assemble", "memory", <<line>>, << >>, xlen, FALSE, "hex", NoInstance) :
     line \in MemoryLines, xlen \in {Auto, 32}}

VectorImmCalls ==
  {Call("assemble", "vimm", <<line>>, << >>, Auto, FALSE, "hex", NoInstance) :
     line \in VectorImmLines}

FenceCalls ==
  {Call("assemble", "fence", <<line>>, << >>, xlen, FALSE, "hex", NoInstance) :
     line \in FenceLines, xlen \in {Auto, 32}}

ShiftCalls ==
  {Call("assemble", "shift", <<line>>, << >>, Auto, FALSE, "hex", NoInstance) :
     line \in ShiftLines}

\* the calls a process makes after its first one
LaterCalls ==
  {Call("assemble", "later", source, << >>, xlen, FALSE, "hex", NoInstance) :
     source \in {<<AsmLines[1]>>, <<AsmLines[2]>>, <<AsmLines[4]>>,
                 <<AsmLines[2], AsmLines[1]>>},
     xlen \in {Auto, 32}}
  \cup {Call("disassemble", "later", << >>, source, xlen, FALSE, "hex", NoInstance) :
          source \in {<<CodeLines[1]>>, <<CodeLines[2]>>, <<CodeLines[5]>>,
                      <<CodeLines[2], CodeLines[1]>>},
          xlen \in {Auto, 32}}

\* a constructor that starts the accumulator at 32 whatever the mode
Construct_Narrow(mode) == 32

\* no run request has reached the view provider
NoView == [pc |-> "none", posted |-> << >>]

\* new Assembler(mode, isEmbedded) / new Disassembler(mode, numberBase)
Construct(mode) == IF mode # Auto THEN mode ELSE 32

Init ==
  /\ \/ call \in InstanceCalls
     \/ call \in LiCalls
     \/ call \in ProgramCalls
     \/ call \in CodeCalls
     \/ call \in OpcodeCalls
     \/ call \in PseudoCalls
     \/ call \in FloatCalls
     \/ call \in EmbeddedCalls
     \/ call \in OffsetCalls
     \/ call \in CountCalls
     \/ call \in SplitCalls
     \/ call \in MemoryCalls
     \/ call \in VectorImmCalls
     \/ call \in FenceCalls
     \/ call \in ShiftCalls
  /\ pc = IF call.op = "assemble" THEN "assemble" ELSE "tokenize"
  /\ i = 1
  /\ tokens = << >>
  /\ words = << >>
  /\ lines = << >>
  /\ detectedXlen = Construct(call.xlen)
  /\ resolved = << >>
  /\ paths = << >>
  /\ result = NoResult
  /\ error = NoError
  /\ earlier = << >>
  /\ byName = IndexByName
  /\ byOpcode = IndexByOpcode
  /\ view = NoView

\* utils.ts, formatHex: '0x' and the eight hex digits of the word
formatHex(value) == Word("hex", value)

\* formatNumber(w, numberBase) of a machine word: not part of the available
\* sources; the text is the literal of the word in the chosen base
formatWord(w, numberBase) == Word(numberBase, w)

\* stripComment, then the blank test and parseLine
stripComment(line) == [line EXCEPT !.comment = FALSE]

parseLine(line) ==
  [mnemonic |-> Head(line.tokens).s, operands |-> Tail(line.tokens)]

\* a loop that puts the words of a line in front of the earlier ones
AssembleLine_Prepend ==
  /\ UNCHANGED <<byName, byOpcode, earlier, view>>
  /\ pc = "assemble"
  /\ i <= Len(call.asm)
  /\ LET line == stripComment(call.asm[i])
     IN IF line.tokens = << >>
        THEN /\ i' = i + 1
             /\ UNCHANGED <<call, pc, tokens, words, lines, detectedXlen, resolved,
                            paths, result, error>>
        ELSE \E produced \in {assembleInstructionOrPseudo(parseLine(line).mnemonic,
                                                            parseLine(line).operands,
                                                            i, call.isEmbedded, call.xlen,
                                                            detectedXlen)} :
                /\ detectedXlen' = produced.detectedXlen
                /\ resolved' = resolved \o produced.resolved
                /\ IF produced.ok
                   THEN /\ words' = produced.v \o words
                        /\ i' = i + 1
                        /\ UNCHANGED <<pc, error>>
                   ELSE /\ pc' = "thrown"
                        /\ error' = produced.err
                        /\ UNCHANGED <<words, i>>
                /\ UNCHANGED <<call, tokens, lines, paths, result>>

\* one iteration of the loop of Assembler.assemble
AssembleLine ==
  /\ UNCHANGED <<byName, byOpcode, earlier, view>>
  /\ pc = "assemble"
  /\ i <= Len(call.asm)
  /\ LET line == stripComment(call.asm[i])
     IN IF line.tokens = << >>
        THEN /\ i' = i + 1
             /\ UNCHANGED <<call, pc, tokens, words, lines, detectedXlen, resolved,
                            paths, result, error>>
        ELSE \E produced \in {assembleInstructionOrPseudo(parseLine(line).mnemonic,
                                                            parseLine(line).operands,
                                                            i, call.isEmbedded, call.xlen,
                                                            detectedXlen)} :
                /\ detectedXlen' = produced.detectedXlen
                /\ resolved' = resolved \o produced.resolved
                /\ IF produced.ok
                   THEN /\ words' = words \o produced.v
                        /\ i' = i + 1
                        /\ UNCHANGED <<pc, error>>
                   ELSE /\ pc' = "thrown"
                        /\ error' = produced.err
                        /\ UNCHANGED <<words, i>>
                /\ UNCHANGED <<call, tokens, lines, paths, result>>

\* the end of Assembler.assemble and of assembleDetailed
AssembleReturn ==
  /\ UNCHANGED <<byName, byOpcode, earlier, view>>
  /\ pc = "assemble"
  /\ i > Len(call.asm)
  /\ pc' = "returned"
  /\ result' = [words |-> words, lines |-> << >>,
                output |-> [k \in 1..Len(words) |-> formatWord(words[k], call.numberBase)],
                detectedXlen |-> IF call.xlen = Auto THEN detectedXlen ELSE call.xlen,
                mode |-> call.xlen]
  /\ UNCHANGED <<call, i, tokens, words, lines, detectedXlen, resolved, paths, error>>

\* MachineCodeTokenizer.tokenize, run to its end before any word is decoded
Tokenize ==
  /\ UNCHANGED <<byName, byOpcode, earlier, view>>
  /\ pc = "tokenize"
  /\ \E t \in {tokenize(call.code)} :
        IF t.ok
        THEN /\ tokens' = t.v
             /\ pc' = "decode"
             /\ UNCHANGED error
        ELSE /\ pc' = "thrown"
             /\ error' = t.err
             /\ UNCHANGED tokens
  /\ UNCHANGED <<call, i, words, lines, detectedXlen, resolved, paths, result>>

\* a loop that passes over a word it cannot decode
DisassembleToken_Continue ==
  \* filter() makes a new array of the stored list, sort() orders that array
  /\ byOpcode' = byOpcode
  /\ UNCHANGED <<byName, earlier, view>>
  /\ pc = "decode"
  /\ i <= Len(tokens)
  /\ \E d \in {disassembleWord(tokens[i].value, tokens[i].line, call.xlen,
                               detectedXlen, call.numberBase)} :
        /\ detectedXlen' = d.detectedXlen
        /\ resolved' = resolved \o d.resolved
        /\ paths' = Append(paths, [word |-> tokens[i].value, path |-> d.path,
                                   spec |-> d.resolved])
        /\ IF d.ok
           THEN /\ lines' = Append(lines, d.v)
                /\ i' = i + 1
                /\ UNCHANGED <<pc, error>>
           ELSE /\ i' = i + 1
                /\ UNCHANGED <<lines, pc, error>>
  /\ UNCHANGED <<call, tokens, words, result>>

\* candidates.sort(...) without the filter() before it: the sort orders the
\* list the Map holds
SortInPlace(places) ==
  SelectSeq(places, LAMBDA k : Required(instructionSet[k]) = 128)
  \o SelectSeq(places, LAMBDA k : Required(instructionSet[k]) = 64)
  \o SelectSeq(places, LAMBDA k : Required(instructionSet[k]) = 32)

\* an iteration that sorts the stored candidate list itself
DisassembleToken_SortInPlace ==
  /\ pc = "decode"
  /\ i <= Len(tokens)
  /\ byOpcode' = IF Field(tokens[i].value, 0, 7) \in DOMAIN byOpcode
                  THEN [byOpcode EXCEPT ![Field(tokens[i].value, 0, 7)] =
                          SortInPlace(byOpcode[Field(tokens[i].value, 0, 7)])]
                  ELSE byOpcode
  /\ UNCHANGED <<byName, earlier, view>>
  /\ \E d \in {disassembleWord(tokens[i].value, tokens[i].line, call.xlen,
                               detectedXlen, call.numberBase)} :
        /\ detectedXlen' = d.detectedXlen
        /\ resolved' = resolved \o d.resolved
        /\ paths' = Append(paths, [word |-> tokens[i].value, path |-> d.path,
                                   spec |-> d.resolved])
        /\ IF d.ok
           THEN /\ lines' = Append(lines, d.v)
                /\ i' = i + 1
                /\ UNCHANGED <<pc, error>>
           ELSE /\ pc' = "thrown"
                /\ error' = d.err
                /\ UNCHANGED <<lines, i>>
  /\ UNCHANGED <<call, tokens, words, result>>

\* one iteration of the loop of Disassembler.disassemble
DisassembleToken ==
  \* filter() makes a new array of the stored list, sort() orders that array
  /\ byOpcode' = byOpcode
  /\ UNCHANGED <<byName, earlier, view>>
  /\ pc = "decode"
  /\ i <= Len(tokens)
  /\ \E d \in {disassembleWord(tokens[i].value, tokens[i].line, call.xlen,
                               detectedXlen, call.numberBase)} :
        /\ detectedXlen' = d.detectedXlen
        /\ resolved' = resolved \o d.resolved
        /\ paths' = Append(paths, [word |-> tokens[i].value, path |-> d.path,
                                   spec |-> d.resolved])
        /\ IF d.ok
           THEN /\ lines' = Append(lines, d.v)
                /\ i' = i + 1
                /\ UNCHANGED <<pc, error>>
           ELSE /\ pc' = "thrown"
                /\ error' = d.err
                /\ UNCHANGED <<lines, i>>
  /\ UNCHANGED <<call, tokens, words, result>>

\* the end of Disassembler.disassemble and of disassembleDetailed
DisassembleReturn ==
  /\ UNCHANGED <<byName, byOpcode, earlier, view>>
  /\ pc = "decode"
  /\ i > Len(tokens)
  /\ pc' = "returned"
  /\ result' = [words |-> << >>, lines |-> lines, output |-> lines,
                detectedXlen |-> IF call.xlen = Auto THEN detectedXlen ELSE call.xlen,
                mode |-> call.xlen]
  /\ UNCHANGED <<call, i, tokens, words, lines, detectedXlen, resolved, paths, error>>

Terminal == pc \in {"returned", "thrown"}

\* the width the call in progress reported to its caller, None if it threw
Reported == IF pc = "returned" THEN result.detectedXlen ELSE None

\* the caller passes the output of assembleDetailed (one word per line) to
\* disassembleDetailed, with a width of its choice
Feed ==
  /\ pc = "returned"
  /\ call.op = "assemble"
  /\ call.family \in {"instance", "program", "float"}
  /\ Len(earlier) < MaxCalls - 1
  /\ \E xlen \in {call.xlen, 32} :
       call' = [call EXCEPT !.op = "disassemble", !.fed = TRUE, !.xlen = xlen,
                            !.code = [k \in 1..Len(result.output) |->
                                        <<result.output[k]>>]]
  /\ pc' = "tokenize"
  /\ i' = 1
  /\ tokens' = << >>
  /\ words' = << >>
  /\ lines' = << >>
  /\ detectedXlen' = Construct(call'.xlen)
  /\ resolved' = << >>
  /\ paths' = << >>
  /\ result' = NoResult
  /\ error' = NoError
  /\ earlier' = Append(earlier, Reported)
  /\ UNCHANGED <<byName, byOpcode, view>>

\* a process that keeps one Assembler / Disassembler for all its calls: the
\* accumulator of the earlier call is still there when the next one starts
NextCall_Reuse ==
  /\ Terminal
  /\ Len(earlier) < MaxCalls - 1
  /\ call' \in LaterCalls
  /\ pc' = IF call'.op = "assemble" THEN "assemble" ELSE "tokenize"
  /\ i' = 1
  /\ tokens' = << >>
  /\ words' = << >>
  /\ lines' = << >>
  /\ detectedXlen' = IF call'.xlen # Auto THEN call'.xlen ELSE detectedXlen
  /\ resolved' = << >>
  /\ paths' = << >>
  /\ result' = NoResult
  /\ error' = NoError
  /\ earlier' = Append(earlier, Reported)
  /\ UNCHANGED <<byName, byOpcode, view>>

\* the process serves another call after one that returned or threw:
\* assembleDetailed / disassembleDetailed make a new Assembler / Disassembler
\* and new local arrays
NextCall ==
  /\ Terminal
  /\ Len(earlier) < MaxCalls - 1
  /\ call' \in LaterCalls
  /\ pc' = IF call'.op = "assemble" THEN "assemble" ELSE "tokenize"
  /\ i' = 1
  /\ tokens' = << >>
  /\ words' = << >>
  /\ lines' = << >>
  /\ detectedXlen' = Construct(call'.xlen)
  /\ resolved' = << >>
  /\ paths' = << >>
  /\ result' = NoResult
  /\ error' = NoError
  /\ earlier' = Append(earlier, Reported)
  /\ UNCHANGED <<byName, byOpcode, view>>

Next ==
  \/ AssembleLine
  \/ AssembleReturn
  \/ Tokenize
  \/ DisassembleToken
  \/ DisassembleReturn
  \/ Feed
  \/ NextCall

Spec == Init /\ [][Next]_vars


(***************************************************************************)
(* extension.ts: RiscvAnalyzerViewProvider.handleRun                       *)
(***************************************************************************)
\* an outbound message
Message(type, value) == [type |-> type, value |-> value]

\* a line of whitespace only
WhiteLine == Line(<< >>, FALSE)

\* the 'run' requests of the panel: mode, input, XLEN selection, embedded
\* flag and float mode
RunRequests ==
  {[Call("assemble", "run", source, << >>, xlen, isEmbedded, "hex", NoInstance)
      EXCEPT !.float = resolveFloatOptions(floatMode)] :
     source \in Sequences(<<AsmLines[1], BlankLine, WhiteLine, AsmLines[4]>>, MaxLines),
     xlen \in {Auto, 32}, isEmbedded \in BOOLEAN, floatMode \in {"disabled", "rvq"}}
  \cup {Call("disassemble", "run", << >>, source, xlen, FALSE, "hex", NoInstance) :
          source \in Sequences(<<CodeLines[1], CodeLines[2], CodeLines[3], CodeLines[4],
                                   CodeLines[5]>>, MaxLines),
          xlen \in {Auto, 32}}

\* !input.trim(): no line of the input has anything but whitespace
IsEmptyInput(request) ==
  IF request.op = "assemble"
  THEN \A k \in 1..Len(request.asm) :
         request.asm[k].tokens = << >> /\ ~request.asm[k].comment
  ELSE \A k \in 1..Len(request.code) : request.code[k] = << >>

\* the panel sent a 'run' message; runAnalyzer has not been called
RunInit ==
  /\ call \in RunRequests
  /\ pc = "waiting"
  /\ i = 1
  /\ tokens = << >>
  /\ words = << >>
  /\ lines = << >>
  /\ detectedXlen = None
  /\ resolved = << >>
  /\ paths = << >>
  /\ result = NoResult
  /\ error = NoError
  /\ earlier = << >>
  /\ byName = IndexByName
  /\ byOpcode = IndexByOpcode
  /\ view = [pc |-> "received", posted |-> << >>]

\* handleRun with an input of whitespace only: the error message, return.
\* The view is resolved when a request arrives, so enqueueMessage posts the
\* message at once: posted is the sequence of messages handed to postMessage.
handleRun_Empty ==
  /\ view.pc = "received"
  /\ IsEmptyInput(call)
  /\ view' = [pc |-> "done",
              posted |-> Append(view.posted, Message("error", "Input is empty."))]
  /\ UNCHANGED <<call, pc, i, tokens, words, lines, detectedXlen, resolved, paths, result,
                 error, earlier, byName, byOpcode>>

\* handleRun up to the call of runAnalyzer: 'status: running', then
\* assembleDetailed / disassembleDetailed starts
handleRun_Start ==
  /\ view.pc = "received"
  /\ ~IsEmptyInput(call)
  /\ view' = [pc |-> "awaiting",
              posted |-> Append(view.posted, Message("status", "running"))]
  /\ pc' = IF call.op = "assemble" THEN "assemble" ELSE "tokenize"
  /\ detectedXlen' = Construct(call.xlen)
  /\ UNCHANGED <<call, i, tokens, words, lines, resolved, paths, result, error, earlier,
                 byName, byOpcode>>

\* a handler whose catch block is not followed by the idle status
handleRun_Catch_NoIdle ==
  /\ view.pc = "awaiting"
  /\ pc = "thrown"
  /\ view' = [pc |-> "done",
              posted |-> Append(view.posted, Message("error", error.kind))]
  /\ UNCHANGED <<call, pc, i, tokens, words, lines, detectedXlen, resolved, paths, result,
                 error, earlier, byName, byOpcode>>

\* runAnalyzer returned: 'result', 'info', and the finally block's
\* 'status: idle'
handleRun_Try ==
  /\ view.pc = "awaiting"
  /\ pc = "returned"
  /\ view' = [pc |-> "done",
              posted |-> view.posted
                         \o <<Message("result", result.output),
                              Message("info", <<call.op, result.mode, result.detectedXlen>>),
                              Message("status", "idle")>>]
  /\ UNCHANGED <<call, pc, i, tokens, words, lines, detectedXlen, resolved, paths, result,
                 error, earlier, byName, byOpcode>>

\* runAnalyzer threw: 'error', and the finally block's 'status: idle'
handleRun_Catch ==
  /\ view.pc = "awaiting"
  /\ pc = "thrown"
  /\ view' = [pc |-> "done",
              posted |-> view.posted
                         \o <<Message("error", error.kind), Message("status", "idle")>>]
  /\ UNCHANGED <<call, pc, i, tokens, words, lines, detectedXlen, resolved, paths, result,
                 error, earlier, byName, byOpcode>>

RunNext ==
  \/ handleRun_Empty
  \/ handleRun_Start
  \/ AssembleLine
  \/ AssembleReturn
  \/ Tokenize
  \/ DisassembleToken
  \/ DisassembleReturn
  \/ handleRun_Try
  \/ handleRun_Catch

\* the handler and the call it awaits run to their end
RunSpec == RunInit /\ [][RunNext]_vars /\ WF_vars(RunNext)

(***************************************************************************)
(* Properties                                                              *)
(***************************************************************************)
Min(S) == CHOOSE m \in S : \A n \in S : m <= n

Max(S) == CHOOSE m \in S : \A n \in S : m >= n

CompressedFormats == {"CR", "CI", "CSS", "CIW", "CL", "CS", "CA", "CB", "CJ"}

\* the call runs (or ran) the assembler on call.asm with call.xlen
Assembling == call.op = "assemble"

\* the call runs the disassembler on call.code with call.xlen
Disassembling == call.op = "disassemble"

IsBlank(k) == call.asm[k].tokens = << >>

\* what line k of the assembly source produces on its own
LineOutcome(k) ==
  assembleInstructionOrPseudo(parseLine(stripComment(call.asm[k])).mnemonic,
                              parseLine(stripComment(call.asm[k])).operands,
                              k, call.isEmbedded, call.xlen, Construct(call.xlen))

\* what a machine word of source line k decodes to on its own
WordOutcome(w, k) ==
  disassembleWord(w, k, call.xlen, Construct(call.xlen), call.numberBase)

\* the source lines that cannot be processed
FaultyAsm == {k \in 1..Len(call.asm) : ~IsBlank(k) /\ ~LineOutcome(k).ok}

FaultyCode ==
  {k \in 1..Len(call.code) :
     \E t \in 1..Len(call.code[k]) :
       \/ ~parseMachineWord(call.code[k][t], k).ok
       \/ /\ parseMachineWord(call.code[k][t], k).ok
          /\ ~WordOutcome(call.code[k][t].w, k).ok}

Faulty == IF Assembling THEN FaultyAsm ELSE FaultyCode

\* the words of source lines from..to, in line order
RECURSIVE WordsOfLines(_, _)
WordsOfLines(from, to) ==
  IF from > to THEN << >>
  ELSE (IF IsBlank(from) THEN << >> ELSE LineOutcome(from).v) \o WordsOfLines(from + 1, to)

\* the machine-word tokens of source lines from.., in source order
RECURSIVE TokensOfLines(_)
TokensOfLines(from) ==
  IF from > Len(call.code) THEN << >>
  ELSE [t \in 1..Len(call.code[from]) |-> [value |-> call.code[from][t].w, line |-> from]]
       \o TokensOfLines(from + 1)

\* the instance an instance call assembles, and what its round trip must give
InstanceSpec == instructionsByName[call.instance.name]

Compatible(mode) == mode = Auto \/ mode >= Required(InstanceSpec)

\* a token or a formatted operand, reduced to the register it names and the
\* number it denotes
Meaning(operand) == [s |-> operand.s, v |-> operand.v]

Meanings(operands) == [k \in 1..Len(operands) |-> Meaning(operands[k])]

ValidInstance ==
  /\ call.family = "instance"
  /\ call.instance.variant \in {"low", "high"}
  /\ Tail(call.asm[1].tokens) # << >> \/ InstanceSpec.operandPattern = "none"

\* C1: round trip.  A valid instance of a table row, assembled and then
\* disassembled at widths compatible with the row, is assembled without an
\* error and comes back as one line with the same mnemonic, the same
\* registers in the same positions and the same immediate value.
C1_RoundTrip ==
  (ValidInstance /\ Compatible(call.asmXlen) /\ Compatible(call.xlen)) =>
    /\ pc # "thrown"
    /\ (call.fed /\ pc = "returned") =>
         /\ Len(result.lines) = 1
         /\ result.lines[1].mnemonic = call.instance.name
         /\ Meanings(result.lines[1].operands) = Meanings(Tail(call.asm[1].tokens))

\* C2: order preservation.  The words of the assembler are the words of the
\* non-blank lines processed so far, in line order, and the result returns
\* them all; the disassembler has one token per machine word in source order
\* and one text line per token processed so far, in token order.
C2_OrderPreserved ==
  /\ (Assembling /\ pc = "assemble") => words = WordsOfLines(1, i - 1)
  /\ (Assembling /\ pc = "returned") => result.words = WordsOfLines(1, Len(call.asm))
  /\ (Disassembling /\ pc \in {"decode", "returned"}) =>
       /\ tokens = TokensOfLines(1)
       /\ lines = [k \in 1..(i - 1) |-> WordOutcome(tokens[k].value, tokens[k].line).v]
  /\ (Disassembling /\ pc = "returned") =>
       /\ result.lines = lines
       /\ Len(result.lines) = Len(TokensOfLines(1))

\* a program of two lines that yield different words has been assembled
C2_Witness ==
  /\ call.family = "program"
  /\ Assembling
  /\ pc = "returned"
  /\ Len(result.words) = 2
  /\ result.words[1] # result.words[2]

\* the widest requirement among the rows named, 32 at least
MaxRequired(names) ==
  Max({32} \cup {Required(instructionsByName[names[k]]) : k \in 1..Len(names)})

C3_Accumulated ==
  call.xlen = Auto =>
    /\ detectedXlen = MaxRequired(resolved)
    /\ pc = "returned" => result.detectedXlen = MaxRequired(resolved)

\* a step within one call (the start of a call adds to earlier)
C3_Step ==
  (earlier' = earlier /\ call.xlen = Auto) =>
    /\ detectedXlen' >= detectedXlen
    /\ Len(resolved') >= Len(resolved)
    /\ SubSeq(resolved', 1, Len(resolved)) = resolved

\* C3: automatic width detection.  In auto mode the accumulator is the
\* widest requirement of the rows resolved so far (32 at least) after every
\* instruction of either operation, it never decreases from one instruction
\* to the next, and the width reported is that maximum.
C3_AutoDetection == []C3_Accumulated /\ [][C3_Step]_vars

\* an auto-mode run resolved a wide row and then a narrow one
C3_Witness ==
  /\ call.xlen = Auto
  /\ Len(resolved) = 2
  /\ Required(instructionsByName[resolved[1]]) > Required(instructionsByName[resolved[2]])
  /\ pc = "returned"

\* C4: width rejection.  At a width fixed to 32 the assembler rejects every
\* row that needs 64 bits, and the disassembler rejects every word that
\* encodes such a row, both with the width-mismatch error.
C4_Rejected ==
  (ValidInstance /\ Required(InstanceSpec) = 64 /\ call.xlen = 32 /\ Terminal) =>
    /\ pc = "thrown"
    /\ error.cls = "AnalyzerError"
    /\ error.kind = "Instruction requires XLEN"

\* C5: error line.  Every failure is an AnalyzerError that carries the
\* number of an offending source line; for the assembler that is the line
\* being processed.
C5_ErrorLine ==
  pc = "thrown" =>
    /\ error.cls = "AnalyzerError"
    /\ error.line \in Faulty
    /\ Assembling => error.line = i

OutOfRangeKinds ==
  {"Out of range immediate", "Out of range offset", "Out of range branch offset",
   "Out of range jump offset", "Out of range csr"}

\* C6: immediate boundary.  An instance whose immediate lies in the range of
\* its field (signed b bits: -2^(b-1) .. 2^(b-1)-1, unsigned: 0 .. 2^b-1) is
\* not rejected as out of range; one step below the least or above the
\* greatest value is rejected as out of range, and nothing is emitted.
C6_ImmediateBoundary ==
  (call.family = "instance" /\ Assembling /\ Terminal
     /\ HasImmediate(InstanceSpec) /\ Compatible(call.xlen)) =>
    /\ (call.instance.variant \in {"below", "above"})
         <=> (pc = "thrown" /\ error.kind \in OutOfRangeKinds)
    /\ (call.instance.variant \in {"below", "above"})
         => (words = << >> /\ result = NoResult)

\* addi with 2048 and a load with offset -2049 are both turned down
C6_Witness ==
  /\ call.family = "instance"
  /\ Assembling
  /\ call.instance.name \in {"addi", "lw", "sw", "beq", "lui", "csrrw"}
  /\ call.instance.variant = "above"
  /\ pc = "thrown"
  /\ error.kind \in OutOfRangeKinds

LiImm == call.asm[1].tokens[3].v

LiUpper == ToInt32(Sar(Int32Bits(AddWrap(LiImm, 2048)), 12))

LiUpper12 == ToInt32(Shl(Int32Bits(LiUpper), 12))

\* the word of one instruction of the table
Encode(mnemonic, operands) ==
  assembleSingle(instructionsByName[mnemonic], operands, 1, FALSE, call.xlen, 32).v

\* C7: li.  li rd, imm yields addi rd, x0, imm when imm fits 12 signed bits,
\* and otherwise lui rd, upper followed by addi rd, rd, lower (when lower is
\* not 0) with upper = (imm + 0x800) >> 12 and lower = imm - (upper << 12).
C7_LiExpansion ==
  (call.family = "li" /\ Terminal) =>
    /\ pc = "returned"
    /\ IF fitsSigned(LiImm, 12)
       THEN words = Encode("addi", <<Name("x5"), Name("x0"), Dec(LiImm)>>)
       ELSE /\ DiffFits12(LiImm, LiUpper12)
            /\ words = Encode("lui", <<Name("x5"), Dec(LiUpper)>>)
                       \o (IF LiImm - LiUpper12 # 0
                           THEN Encode("addi", <<Name("x5"), Name("x5"),
                                                 Dec(LiImm - LiUpper12)>>)
                           ELSE << >>)

C9_State ==
  /\ pc = "thrown" => (result = NoResult /\ error # NoError /\ Faulty # {})
  /\ pc = "returned" => Faulty = {}

\* C9: abort on error.  A call whose input has a faulty line or token does
\* not return: it throws, nothing is returned (not even the output of the
\* lines before the fault), and nothing is processed after the throw: the
\* only step from there is the start of another call, with nothing of the
\* aborted one in it.
C9_Abort ==
  /\ []C9_State
  /\ [][pc = "thrown" => /\ pc' \in {"assemble", "tokenize"}
                         /\ Len(earlier') = Len(earlier) + 1
                         /\ i' = 1
                         /\ words' = << >>
                         /\ lines' = << >>
                         /\ result' = NoResult
                         /\ error' = NoError]_vars

\* the assembler threw after it had produced the word of an earlier line
C9_Witness ==
  /\ pc = "thrown"
  /\ Assembling
  /\ words # << >>
  /\ result = NoResult

\* C10: first error.  The line number an error carries is that of the
\* earliest faulty line of the source.
C10_FirstError ==
  (pc = "thrown" /\ error.line # NoLine) =>
    /\ Faulty # {}
    /\ error.line = Min(Faulty)

\* the pseudo-instruction line of a pseudo call: mnemonic and operand tokens
PseudoName == parseLine(call.asm[1]).mnemonic

PseudoOperands == parseLine(call.asm[1]).operands

\* what the assembler makes of a real instruction under the options of the
\* call, started afresh
Real(mnemonic, operands) ==
  assembleInstructionOrPseudo(mnemonic, operands, 1, call.isEmbedded, call.xlen,
                              Construct(call.xlen))

\* the call accepted its line exactly when the real instruction is accepted,
\* and then returned the one word of the real instruction
SameWord(real) ==
  /\ (pc = "returned") <=> real.ok
  /\ real.ok => (Len(real.v) = 1 /\ result.words = real.v)

\* the real instruction each pseudo-instruction stands for
BasePseudoForm ==
  LET ops == PseudoOperands
      x0 == Name("x0")
  IN CASE PseudoName = "nop" -> Inst("addi", <<x0, x0, Dec(0)>>)
       [] PseudoName = "mv" -> Inst("addi", <<ops[1], ops[2], Dec(0)>>)
       [] PseudoName = "not" -> Inst("xori", <<ops[1], ops[2], Dec(-1)>>)
       [] PseudoName = "neg" -> Inst("sub", <<ops[1], x0, ops[2]>>)
       [] PseudoName = "seqz" -> Inst("sltiu", <<ops[1], ops[2], Dec(1)>>)
       [] PseudoName = "snez" -> Inst("sltu", <<ops[1], x0, ops[2]>>)
       [] PseudoName = "beqz" -> Inst("beq", <<ops[1], x0, ops[2]>>)
       [] PseudoName = "bnez" -> Inst("bne", <<ops[1], x0, ops[2]>>)
       [] PseudoName = "bgez" -> Inst("bge", <<ops[1], x0, ops[2]>>)
       [] PseudoName = "bltz" -> Inst("blt", <<ops[1], x0, ops[2]>>)
       [] PseudoName = "blez" -> Inst("bge", <<x0, ops[1], ops[2]>>)
       [] PseudoName = "bgtz" -> Inst("blt", <<x0, ops[1], ops[2]>>)

\* C11: pseudo-instruction equivalence.  A line nop, mv, not, neg, seqz,
\* snez, beqz, bnez, bgez, bltz, blez or bgtz is accepted exactly when the
\* real instruction it stands for (addi x0,x0,0; addi rd,rs,0; xori rd,rs,-1;
\* sub rd,x0,rs; sltiu rd,rs,1; sltu rd,x0,rs; beq/bne/bge/blt rs,x0,off;
\* bge/blt x0,rs,off) is accepted with the same options, and it yields
\* exactly the one word of that instruction.
C11_PseudoEquivalence ==
  (call.family = "pseudo" /\ Assembling /\ Terminal
     /\ PseudoName \in RegisterPseudos \cup BranchPseudos \cup {"nop"}) =>
    SameWord(Real(BasePseudoForm.mnemonic, BasePseudoForm.operands))

\* blez with a non-zero register and a non-zero offset has been assembled
C11_Witness ==
  /\ call.family = "pseudo"
  /\ PseudoName = "blez"
  /\ PseudoOperands = <<Name("x5"), Dec(-8)>>
  /\ pc = "returned"
  /\ Len(result.words) = 1

\* the real jump each jump pseudo-instruction stands for
JumpPseudoForm ==
  LET ops == PseudoOperands
      x0 == Name("x0")
      x1 == Name("x1")
  IN CASE PseudoName = "j" -> Inst("jal", <<x0, ops[1]>>)
       [] PseudoName = "jal" -> Inst("jal", <<x1, ops[1]>>)
       [] PseudoName = "jr" -> Inst("jalr", <<x0, ops[1], Dec(0)>>)
       [] PseudoName = "ret" -> Inst("jalr", <<x0, x1, Dec(0)>>)

\* C12: jump pseudo-instructions.  j off yields the word of jal x0, off; the
\* one-operand jal off the word of jal x1, off; jr rs the word of
\* jalr x0, rs, 0; ret the word of jalr x0, x1, 0; each is accepted exactly
\* when that real instruction is.
C12_JumpPseudos ==
  (call.family = "pseudo" /\ Assembling /\ Terminal
     /\ PseudoName \in {"j", "jal", "jr", "ret"}) =>
    SameWord(Real(JumpPseudoForm.mnemonic, JumpPseudoForm.operands))

\* the floating-point extension a row belongs to, by the table it comes from
IsRowOf(table, name) == \E k \in 1..Len(table) : table[k].name = name

\* the option that gates the row of a float call is off
FloatDisabled ==
  \/ IsRowOf(rvfInstructions, call.instance.name) /\ ~call.float.floatEnabled
  \/ IsRowOf(rvdInstructions, call.instance.name) /\ ~call.float.doubleEnabled
  \/ IsRowOf(rvqInstructions, call.instance.name) /\ ~call.float.quadEnabled

\* C13: floating-extension gating.  With floatEnabled false every F row,
\* with doubleEnabled false every D row and with quadEnabled false every Q
\* row is rejected, by the assembler and by the disassembler, at every XLEN
\* mode: such a call never returns.
C13_FloatGating ==
  (call.family = "float" /\ FloatDisabled) => pc # "returned"

\* C14: embedded register file.  With isEmbedded true, a line that names a
\* register of the upper half (x16..x31, a6, a7, s2..s11, t3..t6) in an
\* integer-register position, whatever the instruction and the position
\* (base registers of memory operands and the integer operands of
\* floating-point and vector instructions included), is rejected with the
\* invalid-register error and emits nothing.
C14_EmbeddedRegisters ==
  (call.family = "embedded" /\ call.isEmbedded /\ Terminal) =>
    /\ pc = "thrown"
    /\ error.cls = "AnalyzerError"
    /\ error.kind = "Invalid register"
    /\ result = NoResult

\* C15: assemble output format.  Whatever the options (numberBase = 'dec'
\* included), the text assemble returns has one entry per emitted word, in
\* order, and each entry is the word written as '0x' and eight hex digits.
C15_OutputFormat ==
  (Assembling /\ pc = "returned") =>
    result.output = [k \in 1..Len(result.words) |-> formatHex(result.words[k])]

\* the offset of the line of an offset call, and the width of its field
Offset == call.asm[1].tokens[Len(call.asm[1].tokens)].v

OffsetBits == IF Head(call.asm[1].tokens).s \in {"jal", "j"} THEN 21 ELSE 13

InField == Offset >= 0 - Pow2(OffsetBits - 1) /\ Offset <= Pow2(OffsetBits - 1) - 1

Odd == Offset % 2 = 1

MisalignedKinds ==
  {"Branch offset must be aligned to 2 bytes", "Jump offset must be aligned to 2 bytes"}

Misaligned ==
  /\ pc = "thrown"
  /\ error.kind \in MisalignedKinds
  /\ words = << >>
  /\ result = NoResult

\* C16 as stated: every odd offset fails with the misaligned-offset error
\* and emits no word; every even offset inside the signed range of the
\* field (13 bits for branches, 21 bits for jal) is accepted.
C16_AnyOddOffset ==
  (call.family = "offset" /\ Terminal) =>
    /\ Odd => Misaligned
    /\ (~Odd /\ InField) => pc = "returned"

\* C16: offset alignment.  A branch, branch pseudo-instruction or jump whose
\* offset is odd and inside the signed range of its field fails with the
\* misaligned-offset error and emits no word; every even offset inside the
\* range is accepted and yields one word; an offset outside the range, odd
\* or even, fails with the out-of-range error and emits no word.
C16_Alignment ==
  (call.family = "offset" /\ Terminal) =>
    /\ (Odd /\ InField) => Misaligned
    /\ (~Odd /\ InField) => (pc = "returned" /\ Len(result.words) = 1)
    /\ ~InField => /\ pc = "thrown"
                   /\ error.kind \in OutOfRangeKinds
                   /\ words = << >>
                   /\ result = NoResult

\* a branch with the odd offset 3 has been turned down as misaligned
C16_Witness ==
  /\ call.family = "offset"
  /\ Head(call.asm[1].tokens).s = "bne"
  /\ Offset = 3
  /\ Misaligned

CountKinds == {"Expected operand count", "Expected 4 operands"}

\* C17: operand count.  A line of a table row with one operand fewer or one
\* more than the row's operand pattern takes (for fence: with one or three
\* operands) is rejected with the operand-count error at its line and emits
\* no word.
C17_OperandCount ==
  (call.family = "count" /\ Terminal) =>
    /\ pc = "thrown"
    /\ error.cls = "AnalyzerError"
    /\ error.kind \in CountKinds
    /\ error.line = 1
    /\ words = << >>
    /\ result = NoResult

\* the candidates of the opcode group of a word that the mode allows and
\* that the matcher accepts (their places in the stored list)
Matching(word, mode) ==
  LET opcode == Field(word, 0, 7)
  IN IF opcode \notin DOMAIN instructionsByOpcode THEN {}
     ELSE {k \in 1..Len(instructionsByOpcode[opcode]) :
             /\ isInstructionAllowed(instructionsByOpcode[opcode][k], mode)
             /\ matchesSpec(instructionsByOpcode[opcode][k], word)}

\* C18: unambiguous decoding.  For every 32-bit word handed to the decoder,
\* in every XLEN mode, at most one allowed row of the word's opcode group
\* satisfies the matcher.
C18_Unambiguous ==
  Disassembling =>
    \A t \in 1..Len(tokens) :
      ~isCompressed(tokens[t].value) =>
        Cardinality(Matching(tokens[t].value, call.xlen)) <= 1

(***************************************************************************)
(* Calls one after the other                                               *)
(***************************************************************************)
\* what a call leaves behind: where it ended, its result and its error
CallOutcome(at, r, e) == [pc |-> at, result |-> r, error |-> e]

\* Assembler.assemble from source line k on, in an Assembler whose words so
\* far are ws and whose accumulator is dx, followed by the mapping of
\* assembleDetailed
RECURSIVE AssembleFrom(_, _, _, _)
AssembleFrom(c, k, ws, dx) ==
  IF k > Len(c.asm)
  THEN CallOutcome("returned",
               [words |-> ws, lines |-> << >>,
                output |-> [n \in 1..Len(ws) |-> formatWord(ws[n], c.numberBase)],
                detectedXlen |-> IF c.xlen = Auto THEN dx ELSE c.xlen,
                mode |-> c.xlen],
               NoError)
  ELSE IF stripComment(c.asm[k]).tokens = << >>
  THEN AssembleFrom(c, k + 1, ws, dx)
  ELSE With(assembleInstructionOrPseudo(parseLine(stripComment(c.asm[k])).mnemonic,
                                        parseLine(stripComment(c.asm[k])).operands,
                                        k, c.isEmbedded, c.xlen, dx),
            LAMBDA produced :
              IF produced.ok
              THEN AssembleFrom(c, k + 1, ws \o produced.v, produced.detectedXlen)
              ELSE CallOutcome("thrown", NoResult, produced.err))

\* Disassembler.disassemble from token k on, with the lines ls so far and the
\* accumulator dx, followed by the mapping of disassembleDetailed
RECURSIVE DisassembleFrom(_, _, _, _, _)
DisassembleFrom(c, ts, k, ls, dx) ==
  IF k > Len(ts)
  THEN CallOutcome("returned",
               [words |-> << >>, lines |-> ls, output |-> ls,
                detectedXlen |-> IF c.xlen = Auto THEN dx ELSE c.xlen,
                mode |-> c.xlen],
               NoError)
  ELSE With(disassembleWord(ts[k].value, ts[k].line, c.xlen, dx, c.numberBase),
            LAMBDA d :
              IF d.ok
              THEN DisassembleFrom(c, ts, k + 1, Append(ls, d.v), d.detectedXlen)
              ELSE CallOutcome("thrown", NoResult, d.err))

\* the call made in a process that has served no call before it
Alone(c) ==
  IF c.op = "assemble"
  THEN AssembleFrom(c, 1, << >>, Construct(c.xlen))
  ELSE With(tokenize(c.code),
            LAMBDA t :
              IF t.ok THEN DisassembleFrom(c, t.v, 1, << >>, Construct(c.xlen))
              ELSE CallOutcome("thrown", NoResult, t.err))

\* C19: call independence.  When a call has returned or thrown, its output
\* text, words, detectedXlen or error are those of the same call (source and
\* options) made alone in a fresh process, whatever calls the process served
\* before it and however they ended.
C19_CallIndependence ==
  Terminal => CallOutcome(pc, result, error) = Alone(call)

\* an auto-width call that reports 32 after a call that reported 64
C19_Witness ==
  /\ pc = "returned"
  /\ earlier # << >>
  /\ earlier[Len(earlier)] = 64
  /\ call.xlen = Auto
  /\ result.detectedXlen = 32
  /\ CallOutcome(pc, result, error) = Alone(call)

\* C20: read-only table.  In every state, during and after every call,
\* returned or thrown, the by-name index and the by-opcode index are the ones
\* the module initialisation built from the instruction table: every opcode
\* keeps the same rows in the same order.
C20_ReadOnlyTable ==
  /\ byName = IndexByName
  /\ byOpcode = IndexByOpcode

\* a later disassemble call has returned after decoding a word of an opcode
\* group whose stored list is not in the order the decoder's sort produces
C20_Witness ==
  /\ pc = "returned"
  /\ call.op = "disassemble"
  /\ earlier # << >>
  /\ \E k \in 1..Len(paths) :
        /\ paths[k].path = "standard"
        /\ Field(paths[k].word, 0, 7) \in DOMAIN byOpcode
        /\ SortInPlace(IndexByOpcode[Field(paths[k].word, 0, 7)])
             # IndexByOpcode[Field(paths[k].word, 0, 7)]
        /\ byOpcode[Field(paths[k].word, 0, 7)]
             = IndexByOpcode[Field(paths[k].word, 0, 7)]

(***************************************************************************)
(* Fixed widths, decode failures, split immediates                         *)
(***************************************************************************)
\* C21: fixed XLEN is immutable.  In a call whose caller fixed xlen to X (32,
\* 64 or 128) the XLEN state is X before, between and after all lines or
\* words, no step of the call changes it, and a call that completes reports
\* detectedXlen = X and mode = X, whatever widths the instructions need.
C21_State ==
  call.xlen # Auto =>
    /\ detectedXlen = call.xlen
    /\ pc = "returned" => (result.detectedXlen = call.xlen /\ result.mode = call.xlen)

C21_FixedXlen ==
  /\ []C21_State
  /\ [][(call.xlen # Auto /\ earlier' = earlier /\ call'.xlen = call.xlen)
          => detectedXlen' = detectedXlen]_vars

\* a call fixed to 64 or 128 completed with rows that all need 32 bits only
C21_Witness ==
  /\ call.xlen \in {64, 128}
  /\ pc = "returned"
  /\ resolved # << >>
  /\ \A k \in 1..Len(resolved) : Required(instructionsByName[resolved[k]]) = 32
  /\ result.detectedXlen = call.xlen
  /\ result.mode = call.xlen

\* the word is decoded on the standard (32-bit) path
StandardWord(word) == ~isCompressed(word)

\* the by-opcode index has rows for the 7-bit opcode of the word
KnownOpcode(word) == Field(word, 0, 7) \in DOMAIN instructionsByOpcode

\* the rows of the word's opcode group that the mode allows
AllowedRows(word, mode) ==
  IF ~KnownOpcode(word) THEN {}
  ELSE {k \in 1..Len(instructionsByOpcode[Field(word, 0, 7)]) :
          isInstructionAllowed(instructionsByOpcode[Field(word, 0, 7)][k], mode)}

\* the row recorded for a word is an allowed row of its group that matches it
ChosenMatches(word, mode, name) ==
  \E k \in Matching(word, mode) : instructionsByOpcode[Field(word, 0, 7)][k].name = name

\* every standard word that produced a line of text was decoded by a row
\* that matches it
TextOnlyFromMatch ==
  \A k \in 1..Len(lines) :
    StandardWord(paths[k].word) =>
      /\ paths[k].spec # << >>
      /\ ChosenMatches(paths[k].word, call.xlen, paths[k].spec[1])

\* the decoder threw at the standard word tokens[i]
ThrownAtStandardWord ==
  /\ Disassembling
  /\ pc = "thrown"
  /\ i <= Len(tokens)
  /\ StandardWord(tokens[i].value)

\* C22 as stated: decode failure kinds.  A standard word whose opcode has no
\* row fails with the unknown-opcode error; a word whose opcode is known but
\* that no XLEN-allowed row matches fails with the unsupported-encoding
\* error; no text is returned for it, and text is only returned from a row
\* that matches the word.
C22_AnyUnmatched ==
  /\ (Disassembling /\ pc # "tokenize") => TextOnlyFromMatch
  /\ ThrownAtStandardWord =>
       /\ Len(lines) = i - 1
       /\ result = NoResult
       /\ ~KnownOpcode(tokens[i].value) => error.kind = "Unknown opcode"
       /\ (KnownOpcode(tokens[i].value) /\ Matching(tokens[i].value, call.xlen) = {})
            => error.kind = "Unsupported instruction encoding"

\* C22: decode failure kinds.  A standard word whose opcode has no row fails
\* with the unknown-opcode error; a word whose opcode is known and has rows
\* the XLEN mode allows, none of which matches, fails with the
\* unsupported-encoding error; a word whose opcode is known but has no row
\* the fixed XLEN mode allows fails with the XLEN-mismatch error; no text is
\* returned for such a word, and text is only returned from a row that
\* matches the word.
C22_FailureKinds ==
  /\ (Disassembling /\ pc # "tokenize") => TextOnlyFromMatch
  /\ ThrownAtStandardWord =>
       /\ Len(lines) = i - 1
       /\ result = NoResult
       /\ ~KnownOpcode(tokens[i].value) => error.kind = "Unknown opcode"
       /\ (KnownOpcode(tokens[i].value) /\ Matching(tokens[i].value, call.xlen) = {})
            => error.kind = IF AllowedRows(tokens[i].value, call.xlen) = {}
                            THEN "Instruction requires XLEN"
                            ELSE "Unsupported instruction encoding"
  /\ (Disassembling /\ pc = "returned") =>
       \A k \in 1..Len(tokens) :
         StandardWord(tokens[k].value) => Matching(tokens[k].value, call.xlen) # {}

\* a word of a known opcode, with rows the mode allows and none that matches,
\* was refused
C22_Witness ==
  /\ ThrownAtStandardWord
  /\ KnownOpcode(tokens[i].value)
  /\ AllowedRows(tokens[i].value, call.xlen) # {}
  /\ Matching(tokens[i].value, call.xlen) = {}
  /\ error.kind = "Unsupported instruction encoding"
  /\ lines = << >>

\* the mnemonic and the offset of the line a split-immediate call assembles
SplitName == Head(call.asm[1].tokens).s

SplitOffset == call.asm[1].tokens[Len(call.asm[1].tokens)].v

\* the immediate the decoder's routine for the format reads from the word
DecodedOffset(word) ==
  CASE SplitName = "sw" -> decodeStore(SpecByName("sw"), word, "dec").operands[2].v
    [] SplitName = "bne" -> decodeBranch(SpecByName("bne"), word, "dec").operands[3].v
    [] OTHER -> decodeJump(SpecByName("jal"), word, "dec").operands[2].v

\* C23: split-immediate inversion.  Every store offset in [-2048, 2047],
\* every even branch offset in [-4096, 4094] and every even jal offset in
\* [-1048576, 1048574] is assembled into one word, and the decoder's
\* reassembly of the immediate slices of that word, sign-extended, is the
\* offset that was assembled.
C23_SplitInversion ==
  (call.family = "split" /\ Terminal) =>
    /\ pc = "returned"
    /\ Len(result.words) = 1
    /\ DecodedOffset(result.words[1]) = SplitOffset

\* a negative branch offset with bits in each of the four slices came back
C23_Witness ==
  /\ call.family = "split"
  /\ pc = "returned"
  /\ SplitName = "bne"
  /\ SplitOffset = -1366
  /\ DecodedOffset(result.words[1]) = -1366

(***************************************************************************)
(* Memory operands, dispatch                                               *)
(***************************************************************************)
\* the pieces of the second operand of the line a memory call assembles
MemoryText == Pieces(call.asm[1].tokens[3])

IsParen(piece) == piece.t \in {"(", ")"}

\* the text reads  something ( something ) : one '(' that is not first, one
\* ')' that is last, and no other parenthesis
HasShape(text) ==
  /\ Len(text) \in {3, 4}
  /\ ~IsParen(text[1])
  /\ text[2].t = "("
  /\ text[Len(text)].t = ")"
  /\ Len(text) = 4 => ~IsParen(text[3])

\* offset(base) with a 12-bit signed literal and an integer register
WellFormed(text) ==
  /\ HasShape(text)
  /\ Len(text) = 4
  /\ text[1].t \in {"dec", "hex"}
  /\ text[1].v >= -2048
  /\ text[1].v <= 2047
  /\ text[3].t = "name"
  /\ text[3].s \in DOMAIN aliasToNumber

\* C24: memory-operand syntax.  A load or store is assembled only if its
\* second operand reads offset(base) with a 12-bit signed offset literal and
\* a valid integer register; a text of any other shape (a parenthesis
\* missing, misplaced or repeated, text after ')', '(' first) fails with
\* the invalid-memory-operand error, and no word is emitted for it.
C24_MemorySyntax ==
  (call.family = "memory" /\ Terminal) =>
    IF WellFormed(MemoryText)
    THEN pc = "returned" /\ Len(result.words) = 1
    ELSE /\ pc = "thrown"
         /\ result = NoResult
         /\ ~HasShape(MemoryText) => error.kind = "Invalid memory operand"

\* the errors of a dispatch that found no routine, or a routine that found
\* the row without the fields it packs
DispatchKinds ==
  {"Unhandled operand pattern", "Missing funct fields", "Unsupported float operand pattern"}

\* C25: exhaustive dispatch.  An instance of any row of the table, written
\* with the operands of the row's pattern and assembled at a width that
\* allows the row, never ends in the unhandled-pattern or the
\* missing-funct-fields error, and neither does the decoding of a word that
\* a row of the table matches.
C25_ExhaustiveDispatch ==
  /\ (/\ call.family = "instance"
      /\ call.instance.variant \in {"low", "high"}
      /\ Compatible(call.asmXlen)
      /\ Assembling
      /\ pc = "thrown") => error.kind \notin DispatchKinds
  /\ (Disassembling /\ pc = "thrown") => error.kind \notin DispatchKinds

\* C26: vector immediate slot.  For every vd and vs in 0..31 and every imm in
\* -16..15, vadd.vi vd, vs, imm is assembled into one word, and the decoder
\* reads the same vd, the same source vector register and the same imm from
\* that word.
C26_VectorImmediate ==
  (call.family = "vimm" /\ Terminal) =>
    /\ pc = "returned"
    /\ Len(result.words) = 1
    /\ Meanings(decodeVType(SpecByName("vadd.vi"), result.words[1], "dec").operands)
         = Meanings(Tail(call.asm[1].tokens))

(***************************************************************************)
(* Fence, shift amounts, widths in both directions                         *)
(***************************************************************************)
\* the set a fence operand names (i, o, r, w = 8, 4, 2, 1)
FenceMask(token) ==
  IF token.t = "dec" THEN 0 ELSE CHOOSE m \in 1..15 : fenceName[m] = token.s

FenceOperands == Tail(call.asm[1].tokens)

\* the sets the line of a fence call asks for; all of them without operands
FencePred == IF FenceOperands = << >> THEN 15 ELSE FenceMask(FenceOperands[1])

FenceSucc == IF FenceOperands = << >> THEN 15 ELSE FenceMask(FenceOperands[2])

\* C27: fence encoding.  fence pred, succ is assembled into a word with the
\* predecessor set in bits 27:24 and the successor set in bits 23:20; fence
\* without operands gives 0x0ff0000f, the word of fence iorw, iorw; and the
\* decoder prints the sets it finds in bits 27:24 and 23:20, in this order.
C27_FenceEncoding ==
  (call.family = "fence" /\ Terminal) =>
    /\ pc = "returned"
    /\ Len(result.words) = 1
    /\ Field(result.words[1], 24, 4) = FencePred
    /\ Field(result.words[1], 20, 4) = FenceSucc
    /\ FenceOperands = << >> => result.words[1] = Int32Bits(267386895)
    /\ (FencePred # 15 \/ FenceSucc # 15) =>
         decodeFence(SpecByName("fence"), result.words[1]).operands
           = <<formatFenceMask(Field(result.words[1], 24, 4)),
               formatFenceMask(Field(result.words[1], 20, 4))>>

\* the row and the shift amount of the line a shift call assembles
ShiftSpec == instructionsByName[Head(call.asm[1].tokens).s]

Shamt == call.asm[1].tokens[4].v

\* C28: shift-amount fields.  A shift or bit-immediate row with funct7 and a
\* 5- or 6-bit immediate is assembled if and only if 0 <= shamt < 2^immBits;
\* in the word the funct7 bits above the shamt field are those of the row,
\* and the row matches its own word.
C28_ShiftAmount ==
  (call.family = "shift" /\ Terminal) =>
    /\ pc = "returned" <=> (Shamt >= 0 /\ Shamt < Pow2(ShiftSpec.immBits))
    /\ pc = "returned" =>
         /\ Len(result.words) = 1
         /\ Field(result.words[1], 20 + ShiftSpec.immBits, 12 - ShiftSpec.immBits)
              = ShiftSpec.funct7 \div Pow2(ShiftSpec.immBits - 5)
         /\ matchesSpec(ShiftSpec, result.words[1])

\* the disassembler runs on the output of an auto-mode assembly, itself in
\* auto mode
FedAuto == call.fed /\ call.asmXlen = Auto /\ call.xlen = Auto /\ Disassembling

\* C29: XLEN agreement between directions.  When a source assembled in auto
\* mode and the output is disassembled in auto mode, the disassembly returns
\* and reports the detectedXlen that the assembly reported.
C29_XlenAgreement ==
  (FedAuto /\ Terminal) =>
    /\ pc = "returned"
    /\ result.detectedXlen = earlier[Len(earlier)]

(***************************************************************************)
(* The run protocol of the panel                                           *)
(***************************************************************************)
\* the types of the messages enqueued so far, a status by its value
Posted ==
  [k \in 1..Len(view.posted) |->
     IF view.posted[k].type = "status" THEN view.posted[k].value ELSE view.posted[k].type]

\* the message sequences of a finished run
SuccessRun == <<"running", "result", "info", "idle">>

FailureRun == <<"running", "error", "idle">>

EmptyRun == <<"error">>

IsPrefix(s, t) == Len(s) <= Len(t) /\ SubSeq(t, 1, Len(s)) = s

\* what has been enqueued fits the protocol, and a finished handler has
\* enqueued the whole sequence of its case
RunProtocol ==
  /\ IF IsEmptyInput(call) THEN IsPrefix(Posted, EmptyRun)
     ELSE IsPrefix(Posted, SuccessRun) \/ IsPrefix(Posted, FailureRun)
  /\ view.pc = "done" =>
       Posted = IF IsEmptyInput(call) THEN EmptyRun
                ELSE IF pc = "returned" THEN SuccessRun
                ELSE FailureRun
  /\ (view.pc = "done" /\ ~IsEmptyInput(call)) => Terminal

\* the panel shows the running state
Running == Posted # << >> /\ Posted[Len(Posted)] \notin {"idle"} /\ Posted[1] = "running"

\* C30: UI run protocol.  For a 'run' request with non-empty input the view
\* provider enqueues 'status: running', then 'result' and 'info' if the
\* analyzer returns or 'error' if it throws, and then exactly one 'status:
\* idle': every run that entered the running state reaches idle.  For an
\* empty input it enqueues one 'error' message and no status.
C30_RunProtocol ==
  /\ []RunProtocol
  /\ Running ~> (view.pc = "done" /\ Posted[Len(Posted)] = "idle")
  /\ [](IsEmptyInput(call) => <>(view.pc = "done" /\ Posted = EmptyRun))

\* a run whose analyzer call threw has finished with error and idle
C30_Witness ==
  /\ view.pc = "done"
  /\ pc = "thrown"
  /\ Posted = FailureRun
  /\ view.posted[2].value = error.kind
====
